---- MODULE Spec2Model ----
(***************************************************************************)
(* Model of the wavetable synthesis engine of src/audio/processor.ts       *)
(* (class WavetableProcessor): the 6-voice pool, the per-voice ADSR        *)
(* envelope, the wavetable oscillator, the 16 channel states and the       *)
(* message handler; and of the control side of src/audio/synth.ts (class   *)
(* SynthEngine): init, and the control operations that post commands to    *)
(* the port of the worklet node.                                           *)
(*                                                                         *)
(* Numbers.  The code works on IEEE doubles; the model works on exact      *)
(* fixed-point integers:                                                   *)
(*   - an envelope level x is the integer x * LevelOne;                    *)
(*   - an ADSR time of t seconds is the integer t * TicksPerSecond;        *)
(*   - a phase p (in table slots) is the integer p * PhaseOne;             *)
(*   - a wavetable sample w is the integer w * WaveOne;                    *)
(*   - velocity v/127 is kept as the integer v;                            *)
(*   - an output sample y is the integer y * WaveOne * GainOne.            *)
(* LevelOne is chosen so that every division the envelope performs on the  *)
(* inputs of this model is exact.                                          *)
(***************************************************************************)
EXTENDS Integers, Sequences, FiniteSets, TLC

\* ---------------------------------------------------------------- bounds
\* A behaviour is bounded by a budget of NOTE_ON messages on channels 0..15,
\* of other messages (NOTE_ON on a channel that does not exist included) and
\* of rendered samples.  Two budgets are explored: one with enough NOTE_ONs to
\* exhaust the voice pool, one with enough samples to run an envelope through
\* all its stages.
PoolNoteOns == 7
PoolControls == 1
PoolSamples == 0
EnvNoteOns == 2
EnvControls == 2
EnvSamples == 5
\* frames of one render block (outputs[0][0].length)
BlockLen == 2
\* the engine and its processor together: calls of noteOn, calls of the other
\* control operations, render blocks started and calls of init
EngNoteOns == 1
EngControls == 1
EngBlocks == 1
EngInits == 2
\* a note held or released on the default channel state at 48 kHz: NOTE_ONs
\* handled before the first sample (or, after the first, after the first
\* block), NOTE_OFFs handled after the first block,
\* and samples rendered (attack, decay and release times of the default ADSR
\* are 4800, 4800 and 9600 samples)
ScnNoteOns == 2
ScnNoteOffs == 1
ScnSamples == 9604
\* the states from which two commands are applied in both orders: NOTE_ONs,
\* other messages and samples handled before
OrdNoteOns == 1
OrdControls == 1
OrdSamples == 2
\* the states from which two runs that differ in one channel's settings are
\* compared: NOTE_ONs (enough to fill the pool), other messages and samples
\* handled before
ShrNoteOns == 6
ShrControls == 2
ShrSamples == 2

\* the application: clicks on its controls, and render blocks
AppClicks == 2
AppBlocks == 1

\* ------------------------------------------------------------- constants
WAVETABLE_SIZE == 32
NumChannels == 16
NumVoices == 6

\* fixed-point scales of the model
LevelOne == 92160000
PhaseOne == 75
WaveOne == 1000
\* scale of the gain in a product val * currentGain: levels are rounded to
\* 1/GainOne there, fine enough to tell the gains below the 0.0001 threshold
\* from 0
GainOne == 40000
TicksPerSecond == 48000

\* sample rates the host may construct the processor with
SampleRates == {8000, 48000}

\* sample rate of the AudioContext that SynthEngine creates (new AudioContext()
\* takes the rate of the output device)
ContextRate == 48000

VoiceIds == 0 .. (NumVoices - 1)
ChannelIds == 0 .. (NumChannels - 1)

\* ------------------------------------------------------------ arithmetic
\* division rounding toward zero (JavaScript's / followed by truncation)
Trunc(n, d) == IF n >= 0 THEN n \div d ELSE -((-n) \div d)

RECURSIVE Pow2(_)
Pow2(n) == IF n <= 0 THEN 1 ELSE 2 * Pow2(n - 1)

\* 440 * 2^(k/12) for k = 0..11, in 1/100 Hz
SemitoneCentiHz == <<44000, 46616, 49388, 52325, 55437, 58733,
                     62225, 65926, 69846, 73999, 78399, 83061>>

\* freq = 440 * Math.pow(2, (note - 69) / 12), in 1/100 Hz
FreqCentiHz(note) ==
    LET k == (note - 69) % 12
        oct == ((note - 69) - k) \div 12
        base == SemitoneCentiHz[k + 1]
    IN  IF oct >= 0 THEN base * Pow2(oct) ELSE base \div Pow2(-oct)

\* (freq / sampleRate) * WAVETABLE_SIZE, in 1/PhaseOne slots
PhaseStepOf(note, rate) ==
    (FreqCentiHz(note) * ((WAVETABLE_SIZE * PhaseOne) \div 100)) \div rate

\* x / (seconds * sampleRate) for a time of ticks / TicksPerSecond seconds,
\* ticks > 0: (x / ticks) * (TicksPerSecond / sampleRate)
PerSample(x, ticks, rate) == Trunc(x, ticks) * (TicksPerSecond \div rate)

\* envLevel * velocity > 0.0001, with envLevel = e / LevelOne and
\* velocity = v / 127: e * v > 127 * LevelOne / 10000; evaluated as a
\* quotient so that the product stays inside 32-bit integers
GainAudible(e, v) == v > 0 /\ e > ((127 * (LevelOne \div 10000)) \div v)

\* ------------------------------------------------------------ wavetables
\* Math.sin((i / 32) * 2 * Math.PI) for i = 0..31, in 1/WaveOne
SineTable ==
    <<0, 195, 383, 556, 707, 831, 924, 981,
      1000, 981, 924, 831, 707, 556, 383, 195,
      0, -195, -383, -556, -707, -831, -924, -981,
      -1000, -981, -924, -831, -707, -556, -383, -195>>

ZeroTable == [i \in 1 .. WAVETABLE_SIZE |-> 0]
ShortTable == [i \in 1 .. (WAVETABLE_SIZE - 1) |-> WaveOne]

\* ----------------------------------------------------------------- ADSR
DefaultADSR == [a |-> 4800, d |-> 4800, s |-> LevelOne \div 2, r |-> 9600]
FastADSR    == [a |-> 2, d |-> 2, s |-> LevelOne \div 2, r |-> 2]
ZeroADSR    == [a |-> 0, d |-> 0, s |-> 0, r |-> 0]
BadADSR     == [a |-> -1, d |-> -1, s |-> (3 * LevelOne) \div 2, r |-> -1]
NegADSR     == [a |-> 2, d |-> 2, s |-> -(LevelOne \div 2), r |-> 2]

\* ------------------------------------------------------------- messages
NoteOnMsgs ==
    { [type |-> "NOTE_ON", payload |-> [note |-> 69, velocity |-> 127, channel |-> 0]],
      [type |-> "NOTE_ON", payload |-> [note |-> 127, velocity |-> 100, channel |-> 1]],
      [type |-> "NOTE_ON", payload |-> [note |-> 69, velocity |-> 64, channel |-> 16]] }

NoteOffMsgs ==
    { [type |-> "NOTE_OFF", payload |-> [note |-> n, channel |-> c]] :
          <<n, c>> \in {<<69, 0>>, <<127, 1>>, <<69, 16>>} }

WavetableMsgs ==
    { [type |-> "SET_CHANNEL_WAVETABLE", payload |-> [channel |-> c, wavetable |-> w]] :
          <<c, w>> \in {<<0, ZeroTable>>, <<0, ShortTable>>, <<16, ZeroTable>>} }

ADSRMsgs ==
    { [type |-> "SET_CHANNEL_ADSR", payload |-> [channel |-> c, adsr |-> p]] :
          <<c, p>> \in {<<0, FastADSR>>, <<0, ZeroADSR>>, <<0, BadADSR>>, <<0, NegADSR>>,
                           <<16, FastADSR>>} }

StopAllMsg == [type |-> "STOP_ALL"]

Budgets ==
    { [noteOns |-> PoolNoteOns, controls |-> PoolControls, samples |-> PoolSamples],
      [noteOns |-> EnvNoteOns, controls |-> EnvControls, samples |-> EnvSamples] }

EngineBudget ==
    [noteOns |-> EngNoteOns, controls |-> EngControls, samples |-> EngBlocks,
     inits |-> EngInits]

OrderBudget ==
    [noteOns |-> OrdNoteOns, controls |-> OrdControls, samples |-> OrdSamples]

ShareBudget ==
    [noteOns |-> ShrNoteOns, controls |-> ShrControls, samples |-> ShrSamples]

ScenarioBudget ==
    [noteOns |-> ScnNoteOns, controls |-> ScnNoteOffs, samples |-> ScnSamples]

ScenarioNoteOn == [type |-> "NOTE_ON", payload |-> [note |-> 69, velocity |-> 127, channel |-> 0]]
ScenarioNoteOff == [type |-> "NOTE_OFF", payload |-> [note |-> 69, channel |-> 0]]

\* the control operations the application calls, one of each kind
EngineCalls ==
    { [type |-> "NOTE_ON", payload |-> [note |-> 69, velocity |-> 127, channel |-> 0]],
      [type |-> "NOTE_OFF", payload |-> [note |-> 69, channel |-> 0]],
      [type |-> "SET_CHANNEL_WAVETABLE", payload |-> [channel |-> 0, wavetable |-> ZeroTable]],
      [type |-> "SET_CHANNEL_ADSR", payload |-> [channel |-> 0, adsr |-> FastADSR]],
      StopAllMsg }

\* ---------------------------------------------------------------- state
VARIABLES
    sampleRateVal,  \* this.sampleRateVal
    channels,       \* this.channels : 0..15 -> [wavetable, adsr]
    voices,         \* this.voices   : 0..5  -> Voice
    pos,            \* index i of the sample loop of the running process() call
    channelData,    \* samples written to outputs[0][0] by the current block
    output1,        \* outputs[0][1] of that block: empty until the block is copied
    failed,         \* process() has thrown
    budget,         \* messages and samples the behaviour may still take
    last,           \* history: the event handled last (event.data, or PROCESS)
    prev,           \* history: this.voices before that event
    quiet,          \* history: STOP_ALL was handled and no NOTE_ON since
    stopFrom,       \* history: envState of each voice before the last STOP_ALL
    burst,          \* history: NOTE_ONs handled in a row from an all-IDLE pool
    track,          \* history: what each voice went through since it was claimed
    isReady,        \* SynthEngine.isReady
    workletNode,    \* SynthEngine.workletNode: 0 is null, n the n-th node created
    port,           \* messages posted to workletNode.port and not handled yet
    oldPorts,       \* the same for the nodes init() has replaced
    callError,      \* a control operation has thrown
    posted,         \* history: the commands posted to workletNode.port
    applied,        \* history: the messages its processor has handled
    isPlaying,      \* main.ts: isPlaying
    awaiting,       \* startPlayback calls waiting at "await synth.init()"
    pauseTime,      \* pauseTime: 0 before the note of the file, 1 past it
    scheduledTill,  \* scheduledTill, in the same two positions
    seeking,        \* the seek bar is being dragged: 'input' came, 'change' not yet
    timers,         \* the setTimeout callbacks of loop() that have not run yet
    editingChannel, \* editingChannel
    channelStates   \* channelStates: the control side's copy of every channel

engineVars == <<isReady, workletNode, port, oldPorts, callError, posted, applied>>

appVars == <<isPlaying, awaiting, pauseTime, scheduledTill, seeking, timers,
             editingChannel, channelStates>>

vars == <<sampleRateVal, channels, voices, pos, channelData, output1, failed, budget,
          last, prev, quiet, stopFrom, burst, track,
          isReady, workletNode, port, oldPorts, callError, posted, applied,
          isPlaying, awaiting, pauseTime, scheduledTill, seeking, timers,
          editingChannel, channelStates>>

IdleVoice ==
    [active |-> FALSE, channel |-> 0, note |-> 0, phase |-> 0, phaseStep |-> 0,
     envState |-> "IDLE", envTime |-> 0, envLevel |-> 0,
     releaseStartLevel |-> 0, velocity |-> 0]

\* history of one voice: the envStates it went through since it was claimed,
\* whether a sample was rendered for it since, whether NOTE_OFF released it
\* before any sample was, the samples rendered for it since its release and
\* a + d + r of its channel at its release
IdleTrack ==
    [trail |-> <<"IDLE">>, rendered |-> FALSE, early |-> FALSE,
     relAge |-> 0, relTicks |-> 0]

NewChannels == [ch \in ChannelIds |-> [wavetable |-> SineTable, adsr |-> DefaultADSR]]
NewVoices == [i \in VoiceIds |-> IdleVoice]
NoEvent == [type |-> "NONE"]

\* the processor as its constructor leaves it
Constructed ==
    /\ channels = NewChannels
    /\ voices = NewVoices
    /\ pos = 0
    /\ channelData = << >>
    /\ output1 = << >>
    /\ failed = FALSE
    /\ last = NoEvent
    /\ prev = NewVoices
    /\ quiet = FALSE
    /\ stopFrom = [i \in VoiceIds |-> "IDLE"]
    /\ burst = 0
    /\ track = [i \in VoiceIds |-> IdleTrack]

\* the application as the module code of main.ts leaves it, a MIDI file
\* loaded: stopped at the start, channel 0 selected in the editors, and in
\* channelStates the sine table and { a: 0.1, d: 0.1, s: 0.5, r: 0.2 } for
\* every channel
AppLoaded ==
    /\ isPlaying = FALSE
    /\ awaiting = 0
    /\ pauseTime = 0
    /\ scheduledTill = 0
    /\ seeking = FALSE
    /\ timers = {}
    /\ editingChannel = 0
    /\ channelStates = NewChannels

\* the processor of an engine that is ready, receiving any messages
Init ==
    /\ sampleRateVal \in SampleRates
    /\ Constructed
    /\ AppLoaded
    /\ budget \in Budgets
    /\ isReady = TRUE
    /\ workletNode = 1
    /\ port = << >>
    /\ oldPorts = << >>
    /\ callError = FALSE
    /\ posted = << >>
    /\ applied = << >>

\* -------------------------------------------------------- triggerAttack
\* Array.prototype.find: index of the first voice in the given state, or -1
FindVoice(vs, st) ==
    IF \E i \in VoiceIds : vs[i].envState = st
    THEN CHOOSE i \in VoiceIds :
             /\ vs[i].envState = st
             /\ \A j \in VoiceIds : j < i => vs[j].envState # st
    ELSE -1

\* variant: a full pool gives up its last slot
SelectVoiceStealLast(vs) ==
    IF FindVoice(vs, "IDLE") # -1 THEN FindVoice(vs, "IDLE")
    ELSE IF FindVoice(vs, "RELEASE") # -1 THEN FindVoice(vs, "RELEASE")
    ELSE NumVoices - 1

SelectVoice(vs) ==
    IF FindVoice(vs, "IDLE") # -1 THEN FindVoice(vs, "IDLE")
    ELSE IF FindVoice(vs, "RELEASE") # -1 THEN FindVoice(vs, "RELEASE")
    ELSE 0

\* variant: the claimed slot is not marked active
AttackVoiceInactive(v, note, velocity, channel, rate) ==
    [v EXCEPT !.note = note,
              !.channel = channel,
              !.phaseStep = PhaseStepOf(note, rate),
              !.phase = 0,
              !.velocity = velocity,
              !.envState = "ATTACK",
              !.envTime = 0,
              !.envLevel = 0]

\* variant: the phase of the claimed slot is left where it was
AttackVoiceKeepPhase(v, note, velocity, channel, rate) ==
    [v EXCEPT !.active = TRUE,
              !.note = note,
              !.channel = channel,
              !.phaseStep = PhaseStepOf(note, rate),
              !.velocity = velocity,
              !.envState = "ATTACK",
              !.envTime = 0,
              !.envLevel = 0]

AttackVoice(v, note, velocity, channel, rate) ==
    [v EXCEPT !.active = TRUE,
              !.note = note,
              !.channel = channel,
              !.phaseStep = PhaseStepOf(note, rate),
              !.phase = 0,
              !.velocity = velocity,
              !.envState = "ATTACK",
              !.envTime = 0,
              !.envLevel = 0]

triggerAttack(vs, note, velocity, channel, rate) ==
    LET k == SelectVoice(vs)
    IN  [vs EXCEPT ![k] = AttackVoice(vs[k], note, velocity, channel, rate)]

\* ------------------------------------------------------- triggerRelease
ReleaseMatches(v, note, channel) ==
    /\ v.active
    /\ v.note = note
    /\ v.channel = channel
    /\ v.envState # "RELEASE"
    /\ v.envState # "IDLE"

ReleaseVoice(v) ==
    [v EXCEPT !.envState = "RELEASE",
              !.envTime = 0,
              !.releaseStartLevel = v.envLevel]

\* variant: only the first matching voice is released
triggerReleaseFirst(vs, note, channel) ==
    [i \in VoiceIds |->
        IF /\ ReleaseMatches(vs[i], note, channel)
           /\ \A j \in VoiceIds : j < i => ~ReleaseMatches(vs[j], note, channel)
        THEN ReleaseVoice(vs[i]) ELSE vs[i]]

\* variant: a voice already in RELEASE is released again from its current level
triggerReleaseAgain(vs, note, channel) ==
    [i \in VoiceIds |->
        IF vs[i].active /\ vs[i].note = note /\ vs[i].channel = channel
           /\ vs[i].envState # "IDLE"
        THEN ReleaseVoice(vs[i]) ELSE vs[i]]

triggerRelease(vs, note, channel) ==
    [i \in VoiceIds |->
        IF ReleaseMatches(vs[i], note, channel) THEN ReleaseVoice(vs[i]) ELSE vs[i]]

\* -------------------------------------------------------- handleMessage
\* this.channels[payload.channel] is undefined outside 0..15
ChannelExists(c) == c \in ChannelIds

\* variant: the level is left as it was
StopVoiceKeepLevel(v) == [v EXCEPT !.active = FALSE, !.envState = "IDLE"]

\* variant: a voice already releasing is left to finish
StopVoiceSkipReleasing(v) ==
    IF v.envState = "RELEASE" THEN v
    ELSE [v EXCEPT !.active = FALSE, !.envState = "IDLE", !.envLevel = 0]

\* variant: sounding voices are released instead of cut
StopVoiceRelease(v) ==
    IF v.active /\ v.envState # "RELEASE"
    THEN [v EXCEPT !.envState = "RELEASE", !.envTime = 0,
                   !.releaseStartLevel = v.envLevel]
    ELSE v

StopVoice(v) == [v EXCEPT !.active = FALSE, !.envState = "IDLE", !.envLevel = 0]

VoicesAfter(m, vs, rate) ==
    IF m.type = "NOTE_ON"
    THEN triggerAttack(vs, m.payload.note, m.payload.velocity, m.payload.channel, rate)
    ELSE IF m.type = "NOTE_OFF"
    THEN triggerRelease(vs, m.payload.note, m.payload.channel)
    ELSE IF m.type = "STOP_ALL"
    THEN [i \in VoiceIds |-> StopVoice(vs[i])]
    ELSE vs

\* Float32Array.prototype.set(source): source[i] is copied to slot i of the
\* channel's own buffer, for every i below source.length (the payload is a
\* Float32Array, so no element is rounded on the way)
SetTable(wavetable, source) ==
    [i \in 1 .. WAVETABLE_SIZE |->
        IF i <= Len(source) THEN source[i] ELSE wavetable[i]]

\* variant: the length of the payload is not checked
ChannelsAfterAnyLength(m, chs) ==
    IF m.type = "SET_CHANNEL_WAVETABLE"
    THEN IF ChannelExists(m.payload.channel)
         THEN [chs EXCEPT ![m.payload.channel].wavetable =
                              SetTable(@, m.payload.wavetable)]
         ELSE chs
    ELSE IF m.type = "SET_CHANNEL_ADSR"
    THEN IF ChannelExists(m.payload.channel)
         THEN [chs EXCEPT ![m.payload.channel].adsr = m.payload.adsr]
         ELSE chs
    ELSE chs

\* variant: an ADSR with a field out of range is dropped
ChannelsAfterInRange(m, chs) ==
    IF m.type = "SET_CHANNEL_WAVETABLE"
    THEN IF ChannelExists(m.payload.channel)
            /\ Len(m.payload.wavetable) = WAVETABLE_SIZE
         THEN [chs EXCEPT ![m.payload.channel].wavetable =
                              SetTable(@, m.payload.wavetable)]
         ELSE chs
    ELSE IF m.type = "SET_CHANNEL_ADSR"
    THEN IF /\ ChannelExists(m.payload.channel)
            /\ m.payload.adsr.a >= 0 /\ m.payload.adsr.d >= 0
            /\ m.payload.adsr.r >= 0
            /\ m.payload.adsr.s >= 0 /\ m.payload.adsr.s <= LevelOne
         THEN [chs EXCEPT ![m.payload.channel].adsr = m.payload.adsr]
         ELSE chs
    ELSE chs

\* variant: STOP_ALL also puts every channel back to its initial state
ChannelsAfterStopAllResets(m, chs) ==
    IF m.type = "SET_CHANNEL_WAVETABLE"
    THEN IF ChannelExists(m.payload.channel)
            /\ Len(m.payload.wavetable) = WAVETABLE_SIZE
         THEN [chs EXCEPT ![m.payload.channel].wavetable =
                              SetTable(@, m.payload.wavetable)]
         ELSE chs
    ELSE IF m.type = "SET_CHANNEL_ADSR"
    THEN IF ChannelExists(m.payload.channel)
         THEN [chs EXCEPT ![m.payload.channel].adsr = m.payload.adsr]
         ELSE chs
    ELSE IF m.type = "STOP_ALL"
    THEN NewChannels
    ELSE chs

\* variant: NOTE_ON puts the ADSR of its channel back to the default
ChannelsAfterNoteOnResets(m, chs) ==
    IF m.type = "SET_CHANNEL_WAVETABLE"
    THEN IF ChannelExists(m.payload.channel)
            /\ Len(m.payload.wavetable) = WAVETABLE_SIZE
         THEN [chs EXCEPT ![m.payload.channel].wavetable =
                              SetTable(@, m.payload.wavetable)]
         ELSE chs
    ELSE IF m.type = "SET_CHANNEL_ADSR"
    THEN IF ChannelExists(m.payload.channel)
         THEN [chs EXCEPT ![m.payload.channel].adsr = m.payload.adsr]
         ELSE chs
    ELSE IF m.type = "NOTE_ON" /\ ChannelExists(m.payload.channel)
    THEN [chs EXCEPT ![m.payload.channel].adsr = DefaultADSR]
    ELSE chs

ChannelsAfter(m, chs) ==
    IF m.type = "SET_CHANNEL_WAVETABLE"
    THEN IF ChannelExists(m.payload.channel)
            /\ Len(m.payload.wavetable) = WAVETABLE_SIZE
         THEN [chs EXCEPT ![m.payload.channel].wavetable =
                              SetTable(@, m.payload.wavetable)]
         ELSE chs
    ELSE IF m.type = "SET_CHANNEL_ADSR"
    THEN IF ChannelExists(m.payload.channel)
         THEN [chs EXCEPT ![m.payload.channel].adsr = m.payload.adsr]
         ELSE chs
    ELSE chs

\* ------------------------------------------------- process: the envelope
\* variant: the release ends only once the level has gone below 0
ReleaseStepStrict(v, adsr, rate) ==
    IF adsr.r <= 0
    THEN [v EXCEPT !.envLevel = 0, !.active = FALSE, !.envState = "IDLE"]
    ELSE LET lvl == v.envLevel - PerSample(v.releaseStartLevel, adsr.r, rate) IN
         IF lvl < 0
         THEN [v EXCEPT !.envLevel = 0, !.active = FALSE, !.envState = "IDLE"]
         ELSE [v EXCEPT !.envLevel = lvl]

\* variant: with r = 0 the level drops to 0 but the voice stays in RELEASE
ReleaseStepNoJump(v, adsr, rate) ==
    IF adsr.r <= 0
    THEN [v EXCEPT !.envLevel = 0]
    ELSE LET lvl == v.envLevel - PerSample(v.releaseStartLevel, adsr.r, rate) IN
         IF lvl <= 0
         THEN [v EXCEPT !.envLevel = 0, !.active = FALSE, !.envState = "IDLE"]
         ELSE [v EXCEPT !.envLevel = lvl]

\* variant: the release ends in IDLE at level 0 but the voice stays active
ReleaseStepStaysActive(v, adsr, rate) ==
    IF adsr.r <= 0
    THEN [v EXCEPT !.envLevel = 0, !.envState = "IDLE"]
    ELSE LET lvl == v.envLevel - PerSample(v.releaseStartLevel, adsr.r, rate) IN
         IF lvl <= 0
         THEN [v EXCEPT !.envLevel = 0, !.envState = "IDLE"]
         ELSE [v EXCEPT !.envLevel = lvl]

\* case 'RELEASE' of the switch
ReleaseStep(v, adsr, rate) ==
    IF adsr.r <= 0
    THEN [v EXCEPT !.envLevel = 0, !.active = FALSE, !.envState = "IDLE"]
    ELSE LET lvl == v.envLevel - PerSample(v.releaseStartLevel, adsr.r, rate) IN
         IF lvl <= 0
         THEN [v EXCEPT !.envLevel = 0, !.active = FALSE, !.envState = "IDLE"]
         ELSE [v EXCEPT !.envLevel = lvl]

\* variant: with a = 0 the level jumps to 1 but the voice stays in ATTACK
AttackStepNoJump(v, adsr, rate) ==
    IF adsr.a <= 0
    THEN [v EXCEPT !.envLevel = LevelOne]
    ELSE LET lvl == v.envLevel + PerSample(LevelOne, adsr.a, rate) IN
         IF lvl >= LevelOne
         THEN [v EXCEPT !.envLevel = LevelOne, !.envState = "DECAY", !.envTime = 0]
         ELSE [v EXCEPT !.envLevel = lvl]

\* variant: DECAY is entered only once the level has gone above 1
AttackStepStrict(v, adsr, rate) ==
    IF adsr.a <= 0
    THEN [v EXCEPT !.envLevel = LevelOne, !.envState = "DECAY", !.envTime = 0]
    ELSE LET lvl == v.envLevel + PerSample(LevelOne, adsr.a, rate) IN
         IF lvl > LevelOne
         THEN [v EXCEPT !.envLevel = LevelOne, !.envState = "DECAY", !.envTime = 0]
         ELSE [v EXCEPT !.envLevel = lvl]

\* case 'ATTACK' of the switch
AttackStep(v, adsr, rate) ==
    IF adsr.a <= 0
    THEN [v EXCEPT !.envLevel = LevelOne, !.envState = "DECAY", !.envTime = 0]
    ELSE LET lvl == v.envLevel + PerSample(LevelOne, adsr.a, rate) IN
         IF lvl >= LevelOne
         THEN [v EXCEPT !.envLevel = LevelOne, !.envState = "DECAY", !.envTime = 0]
         ELSE [v EXCEPT !.envLevel = lvl]

\* variant: with d = 0 the voice is left in DECAY at the level it had
DecayStepNoJump(v, adsr, rate) ==
    IF adsr.d <= 0
    THEN v
    ELSE LET lvl == v.envLevel - PerSample(LevelOne - adsr.s, adsr.d, rate) IN
         IF lvl <= adsr.s
         THEN [v EXCEPT !.envLevel = adsr.s, !.envState = "SUSTAIN"]
         ELSE [v EXCEPT !.envLevel = lvl]

\* case 'DECAY' of the switch
DecayStep(v, adsr, rate) ==
    IF adsr.d <= 0
    THEN [v EXCEPT !.envLevel = adsr.s, !.envState = "SUSTAIN"]
    ELSE LET lvl == v.envLevel - PerSample(LevelOne - adsr.s, adsr.d, rate) IN
         IF lvl <= adsr.s
         THEN [v EXCEPT !.envLevel = adsr.s, !.envState = "SUSTAIN"]
         ELSE [v EXCEPT !.envLevel = lvl]

\* variant: the level is frozen at the value it had on entering SUSTAIN
SustainStepFrozen(v, adsr) == v

\* case 'SUSTAIN' of the switch
SustainStep(v, adsr) == [v EXCEPT !.envLevel = adsr.s]

\* variant: the cases of the switch have no break, a voice that enters DECAY
\* runs the DECAY case in the same sample
EnvelopeStepFallThrough(v, adsr, rate) ==
    IF v.envState = "ATTACK" THEN
        LET w == AttackStep(v, adsr, rate)
        IN  IF w.envState = "DECAY" THEN DecayStep(w, adsr, rate) ELSE w
    ELSE IF v.envState = "DECAY" THEN DecayStep(v, adsr, rate)
    ELSE IF v.envState = "SUSTAIN" THEN SustainStep(v, adsr)
    ELSE IF v.envState = "RELEASE" THEN ReleaseStep(v, adsr, rate)
    ELSE v

\* one pass of the switch on voice.envState, for an active voice
EnvelopeStep(v, adsr, rate) ==
    IF v.envState = "ATTACK" THEN AttackStep(v, adsr, rate)
    ELSE IF v.envState = "DECAY" THEN DecayStep(v, adsr, rate)
    ELSE IF v.envState = "SUSTAIN" THEN SustainStep(v, adsr)
    ELSE IF v.envState = "RELEASE" THEN ReleaseStep(v, adsr, rate)
    ELSE v

\* ----------------------------------------------- process: the oscillator
\* phase += phaseStep; if (phase >= WAVETABLE_SIZE) phase -= WAVETABLE_SIZE
AdvancePhase(phase, step) ==
    LET p == phase + step
    IN  IF p >= WAVETABLE_SIZE * PhaseOne THEN p - WAVETABLE_SIZE * PhaseOne ELSE p

\* wavetable[i] of a Float32Array is undefined outside 0..31
TableDefined(phase) == (phase \div PhaseOne) \in 0 .. (WAVETABLE_SIZE - 1)

\* wavetable[i] * (1 - frac) + wavetable[nextI] * frac, in 1/WaveOne
Interpolate(wavetable, phase) ==
    LET i == phase \div PhaseOne
        frac == phase % PhaseOne
        nextI == (i + 1) % WAVETABLE_SIZE
    IN  Trunc(wavetable[i + 1] * (PhaseOne - frac) + wavetable[nextI + 1] * frac,
              PhaseOne)

\* a sample value of the mix: a number in 1/(WaveOne * GainOne), or NaN
Num(x) == [nan |-> FALSE, val |-> x]
NaN == [nan |-> TRUE, val |-> 0]

\* val * currentGain; NaN when the table read is undefined.  The velocity is
\* applied to val first so that the product stays inside 32-bit integers
\* for levels above 1 too
Contribution(v, wavetable) ==
    IF ~GainAudible(v.envLevel, v.velocity) THEN Num(0)
    ELSE IF ~TableDefined(v.phase) THEN NaN
    ELSE Num(Trunc(Interpolate(wavetable, v.phase) * v.velocity, 127)
                 * Trunc(v.envLevel, LevelOne \div GainOne))

\* the wavetable block of the loop body: the phase moves only when the gain
\* is above the threshold
OscillatorStep(v) ==
    IF GainAudible(v.envLevel, v.velocity)
    THEN [v EXCEPT !.phase = AdvancePhase(v.phase, v.phaseStep)]
    ELSE v

\* variant: every voice is shaped by the ADSR of channel 0
VoiceStepChannel0(v, chs, rate) ==
    IF ~v.active THEN v
    ELSE OscillatorStep(EnvelopeStep(v, chs[0].adsr, rate))

\* the body of "for (const voice of this.voices)" for one voice
VoiceStep(v, chs, rate) ==
    IF ~v.active THEN v
    ELSE OscillatorStep(EnvelopeStep(v, chs[v.channel].adsr, rate))

\* what the voice adds to sampleSum in this sample
VoiceOutput(v, chs, rate) ==
    IF ~v.active THEN Num(0)
    ELSE Contribution(EnvelopeStep(v, chs[v.channel].adsr, rate),
                      chs[v.channel].wavetable)

\* chState.adsr throws a TypeError when this.channels[voice.channel] is
\* undefined
Throws(v) == v.active /\ ~ChannelExists(v.channel)

\* index of the first voice whose iteration throws, NumVoices if none does
FirstThrow(vs) ==
    IF \E i \in VoiceIds : Throws(vs[i])
    THEN CHOOSE i \in VoiceIds : Throws(vs[i]) /\ \A j \in VoiceIds : j < i => ~Throws(vs[j])
    ELSE NumVoices

RECURSIVE SumOutputs(_, _, _, _)
SumOutputs(vs, chs, rate, n) ==
    IF n = 0 THEN Num(0)
    ELSE LET rest == SumOutputs(vs, chs, rate, n - 1)
             c == VoiceOutput(vs[n - 1], chs, rate)
         IN  IF rest.nan \/ c.nan THEN NaN ELSE Num(rest.val + c.val)

\* variant: the sum is divided by 3
MixSampleBy3(vs, chs, rate) ==
    LET sum == SumOutputs(vs, chs, rate, NumVoices)
    IN  IF sum.nan THEN NaN ELSE Num(Trunc(sum.val, 3))

\* channelData[i] = sampleSum / 4.0
MixSample(vs, chs, rate) ==
    LET sum == SumOutputs(vs, chs, rate, NumVoices)
    IN  IF sum.nan THEN NaN ELSE Num(Trunc(sum.val, 4))

\* output[ch].set(channelData) for ch = 1: every sample of the block is copied
CopyBlock(block) == [i \in 1 .. Len(block) |-> block[i]]

\* -------------------------------------------------------------- actions
AllIdle(vs) == \A i \in VoiceIds : vs[i].envState = "IDLE"

ProcessEvent == [type |-> "PROCESS"]

\* the history of the voices after message m is handled in pool vs
TrackAfter(m, vs, chs, tk) ==
    IF m.type = "NOTE_ON" THEN
        [tk EXCEPT ![SelectVoice(vs)] =
            [trail |-> <<"ATTACK">>, rendered |-> FALSE, early |-> FALSE,
             relAge |-> 0, relTicks |-> 0]]
    ELSE IF m.type = "NOTE_OFF" THEN
        [i \in VoiceIds |->
            IF ReleaseMatches(vs[i], m.payload.note, m.payload.channel)
            THEN [tk[i] EXCEPT !.trail = Append(@, "RELEASE"),
                               !.early = ~tk[i].rendered,
                               !.relAge = 0,
                               !.relTicks = IF ChannelExists(vs[i].channel)
                                            THEN chs[vs[i].channel].adsr.a
                                                 + chs[vs[i].channel].adsr.d
                                                 + chs[vs[i].channel].adsr.r
                                            ELSE 0]
            ELSE tk[i]]
    ELSE IF m.type = "STOP_ALL" THEN
        [i \in VoiceIds |->
            IF vs[i].envState # "IDLE"
            THEN [tk[i] EXCEPT !.trail = Append(@, "IDLE")] ELSE tk[i]]
    ELSE tk

\* the history of the voices after a sample that took pool vs to pool ws,
\* the loop over the voices having reached voice k
TrackAfterSample(vs, ws, k, tk) ==
    [i \in VoiceIds |->
        IF i < k /\ vs[i].active
        THEN [tk[i] EXCEPT !.trail = IF ws[i].envState # vs[i].envState
                                     THEN Append(@, ws[i].envState) ELSE @,
                           !.rendered = TRUE,
                           !.relAge = IF vs[i].envState = "RELEASE" THEN @ + 1 ELSE @]
        ELSE tk[i]]

\* the switch of handleMessage on one message
Dispatch(m) ==
    /\ voices' = VoicesAfter(m, voices, sampleRateVal)
    /\ channels' = ChannelsAfter(m, channels)
    /\ last' = m
    /\ prev' = voices
    /\ quiet' = IF m.type = "STOP_ALL" THEN TRUE
                ELSE IF m.type = "NOTE_ON" THEN FALSE ELSE quiet
    /\ stopFrom' = IF m.type = "STOP_ALL"
                   THEN [i \in VoiceIds |-> voices[i].envState] ELSE stopFrom
    /\ burst' = IF m.type # "NOTE_ON" THEN 0
                ELSE IF AllIdle(voices) THEN 1
                ELSE IF burst > 0 THEN burst + 1 ELSE 0
    /\ track' = TrackAfter(m, voices, channels, track)

\* the budget pays for one message or control operation
Charge(m) ==
    IF m.type = "NOTE_ON" /\ ChannelExists(m.payload.channel)
    THEN budget.noteOns > 0 /\ budget' = [budget EXCEPT !.noteOns = @ - 1]
    ELSE budget.controls > 0 /\ budget' = [budget EXCEPT !.controls = @ - 1]

\* port.onmessage: one message is handled, between two render blocks
HandleMessage(m) ==
    /\ pos = 0
    /\ Charge(m)
    /\ Dispatch(m)
    /\ UNCHANGED <<sampleRateVal, pos, channelData, output1, failed>>
    /\ UNCHANGED engineVars
    /\ UNCHANGED appVars

\* the body of the sample loop of process()
RenderSample ==
    /\ LET k == FirstThrow(voices)
           ws == [i \in VoiceIds |->
                    IF i < k THEN VoiceStep(voices[i], channels, sampleRateVal)
                    ELSE voices[i]]
       IN
       /\ voices' = ws
       /\ track' = TrackAfterSample(voices, ws, k, track)
       /\ IF k < NumVoices
          THEN /\ failed' = TRUE
               /\ pos' = 0
               /\ output1' = << >>
               /\ UNCHANGED channelData
          ELSE /\ failed' = FALSE
               /\ pos' = (pos + 1) % BlockLen
               /\ channelData' =
                    Append(IF pos = 0 THEN << >> ELSE channelData,
                           MixSample(voices, channels, sampleRateVal))
               /\ output1' = IF pos' = 0 THEN CopyBlock(channelData') ELSE << >>
    /\ last' = ProcessEvent
    /\ prev' = voices
    /\ burst' = 0
    /\ UNCHANGED <<sampleRateVal, channels, quiet, stopFrom>>

\* one iteration of the sample loop of process()
ProcessSample ==
    /\ ~failed
    /\ budget.samples > 0
    /\ budget' = [budget EXCEPT !.samples = @ - 1]
    /\ RenderSample
    /\ UNCHANGED engineVars
    /\ UNCHANGED appVars

NoteOn == \E m \in NoteOnMsgs : HandleMessage(m)
NoteOff == \E m \in NoteOffMsgs : HandleMessage(m)
SetChannelWavetable == \E m \in WavetableMsgs : HandleMessage(m)
SetChannelADSR == \E m \in ADSRMsgs : HandleMessage(m)
StopAll == HandleMessage(StopAllMsg)

Next ==
    \/ NoteOn
    \/ NoteOff
    \/ SetChannelWavetable
    \/ SetChannelADSR
    \/ StopAll
    \/ ProcessSample

Spec == Init /\ [][Next]_vars

\* ------------------------------------------------ a note at 48 kHz
\* the processor as constructed at 48 kHz: every channel has the sine table
\* and the ADSR {a: 0.1, d: 0.1, s: 0.5, r: 0.2}
ScenarioInit ==
    /\ sampleRateVal = 48000
    /\ Constructed
    /\ AppLoaded
    /\ budget = ScenarioBudget
    /\ isReady = TRUE
    /\ workletNode = 1
    /\ port = << >>
    /\ oldPorts = << >>
    /\ callError = FALSE
    /\ posted = << >>
    /\ applied = << >>

\* samples rendered so far by a behaviour with the scenario's budget
SamplesRendered == ScnSamples - budget.samples

\* NOTE_ON of A4 at full velocity on channel 0, at sample 0; the note may be
\* played again on top of itself after the first block
PlayNote ==
    /\ \/ SamplesRendered = 0
       \/ SamplesRendered = BlockLen /\ budget.noteOns < ScnNoteOns
    /\ HandleMessage(ScenarioNoteOn)

\* its NOTE_OFF, after the first block
ReleaseNote ==
    /\ SamplesRendered = BlockLen
    /\ HandleMessage(ScenarioNoteOff)

ScenarioNext ==
    \/ PlayNote
    \/ ReleaseNote
    \/ ProcessSample

ScenarioSpec == ScenarioInit /\ [][ScenarioNext]_vars

\* ------------------------------------------- two commands in one block
\* the processor after a few messages and samples, about to handle two more
\* messages before the next block
OrderInit ==
    /\ sampleRateVal \in SampleRates
    /\ Constructed
    /\ AppLoaded
    /\ budget = OrderBudget
    /\ isReady = TRUE
    /\ workletNode = 1
    /\ port = << >>
    /\ oldPorts = << >>
    /\ callError = FALSE
    /\ posted = << >>
    /\ applied = << >>

OrderSpec == OrderInit /\ [][Next]_vars

AllMsgs == NoteOnMsgs \cup NoteOffMsgs \cup WavetableMsgs \cup ADSRMsgs \cup {StopAllMsg}

\* voices and channels after handleMessage(m) in state st
After(m, st, rate) ==
    [voices |-> VoicesAfter(m, st.voices, rate),
     channels |-> ChannelsAfter(m, st.channels)]

\* voices and channels after m1 and then m2 are handled
AfterBoth(m1, m2, st, rate) == After(m2, After(m1, st, rate), rate)

\* the samples process() writes to channelData for a block of n frames that
\* starts with pool vs; a block that throws writes no further sample
RECURSIVE RenderBlock(_, _, _, _)
RenderBlock(vs, chs, rate, n) ==
    IF n = 0 \/ FirstThrow(vs) < NumVoices THEN << >>
    ELSE <<MixSample(vs, chs, rate)>>
         \o RenderBlock([i \in VoiceIds |-> VoiceStep(vs[i], chs, rate)],
                        chs, rate, n - 1)

BlockAfter(st, rate) == RenderBlock(st.voices, st.channels, rate, BlockLen)

\* ------------------------------------------- two runs over a shared pool
\* the processor after enough NOTE_ONs to fill the pool, about to be driven
\* by two command sequences that differ in the settings of one channel
ShareInit ==
    /\ sampleRateVal = ContextRate
    /\ Constructed
    /\ AppLoaded
    /\ budget = ShareBudget
    /\ isReady = TRUE
    /\ workletNode = 1
    /\ port = << >>
    /\ oldPorts = << >>
    /\ callError = FALSE
    /\ posted = << >>
    /\ applied = << >>

\* the notes of the two channels are struck at any time
ShareNoteOn ==
    \E m \in NoteOnMsgs : ChannelExists(m.payload.channel) /\ HandleMessage(m)

\* and released once a sample has been rendered
ShareNoteOff ==
    /\ budget.samples < ShrSamples
    /\ \E m \in NoteOffMsgs : ChannelExists(m.payload.channel) /\ HandleMessage(m)

ShareNext ==
    \/ ShareNoteOn
    \/ ShareNoteOff
    \/ ProcessSample

ShareSpec == ShareInit /\ [][ShareNext]_vars

\* this.voices after process() has rendered n frames from pool vs; a frame
\* that throws ends the rendering
RECURSIVE RenderVoices(_, _, _, _)
RenderVoices(vs, chs, rate, n) ==
    IF n = 0 THEN vs
    ELSE IF \E i \in VoiceIds : Throws(vs[i])
    THEN [i \in VoiceIds |->
             IF i < FirstThrow(vs) THEN VoiceStep(vs[i], chs, rate) ELSE vs[i]]
    ELSE RenderVoices([i \in VoiceIds |-> VoiceStep(vs[i], chs, rate)],
                      chs, rate, n - 1)

\* voices and channels after one block is rendered in state st
AfterBlock(st, rate) ==
    [voices |-> RenderVoices(st.voices, st.channels, rate, BlockLen),
     channels |-> st.channels]

\* voices and channels after the run: m is handled, a block is rendered, x is
\* handled
RunAfter(m, x, st, rate) == After(x, AfterBlock(After(m, st, rate), rate), rate)

\* ------------------------------------------------- the engine (synth.ts)
\* the engine before init(): no node, and the processor the first node will
\* construct
EngineInit ==
    /\ sampleRateVal = ContextRate
    /\ Constructed
    /\ AppLoaded
    /\ budget = EngineBudget
    /\ isReady = FALSE
    /\ workletNode = 0
    /\ port = << >>
    /\ oldPorts = << >>
    /\ callError = FALSE
    /\ posted = << >>
    /\ applied = << >>

\* init() runs to its end: a new node with a new processor replaces
\* workletNode; the node it replaces stays connected, with its port
InitOk ==
    /\ pos = 0
    /\ budget.inits > 0
    /\ budget' = [budget EXCEPT !.inits = @ - 1]
    /\ isReady' = TRUE
    /\ workletNode' = workletNode + 1
    /\ IF workletNode = 0
       THEN UNCHANGED <<channels, voices, channelData, output1, failed, last, prev, quiet,
                        stopFrom, burst, track, port, oldPorts, posted, applied>>
       ELSE /\ oldPorts' = Append(oldPorts, [port |-> port, posted |-> posted,
                                             applied |-> applied])
            /\ port' = << >>
            /\ posted' = << >>
            /\ applied' = << >>
            /\ channels' = NewChannels
            /\ voices' = NewVoices
            /\ channelData' = << >>
            /\ output1' = << >>
            /\ failed' = FALSE
            /\ last' = NoEvent
            /\ prev' = NewVoices
            /\ quiet' = FALSE
            /\ stopFrom' = [i \in VoiceIds |-> "IDLE"]
            /\ burst' = 0
            /\ track' = [i \in VoiceIds |-> IdleTrack]
    /\ UNCHANGED <<sampleRateVal, pos, callError>>
    /\ UNCHANGED appVars

\* init() fails: resume() rejects (init() rejects) or addModule() or the node
\* constructor throws (the catch block only logs); no field is assigned
InitFail ==
    /\ budget.inits > 0
    /\ budget' = [budget EXCEPT !.inits = @ - 1]
    /\ UNCHANGED <<sampleRateVal, channels, voices, pos, channelData, output1,
                   failed,
                   last, prev, quiet, stopFrom, burst, track>>
    /\ UNCHANGED engineVars
    /\ UNCHANGED appVars

\* this.workletNode.port.postMessage(m)
PostMessage(q, m) == Append(q, m)

\* variant: no guard, the port of a null node is dereferenced
CallOutcomeUnguarded(ready, node, q, m) ==
    IF node = 0
    THEN [port |-> q, error |-> TRUE]
    ELSE [port |-> PostMessage(q, m), error |-> FALSE]

\* variant: the command is posted twice
CallOutcomeTwice(ready, node, q, m) ==
    IF ~ready \/ node = 0
    THEN [port |-> q, error |-> FALSE]
    ELSE [port |-> PostMessage(PostMessage(q, m), m), error |-> FALSE]

\* a control operation: if (!this.isReady || !this.workletNode) return;
\* then one postMessage
CallOutcome(ready, node, q, m) ==
    IF ~ready \/ node = 0
    THEN [port |-> q, error |-> FALSE]
    ELSE [port |-> PostMessage(q, m), error |-> FALSE]

\* noteOn, noteOff, setChannelWavetable, setChannelADSR or stopAll is called,
\* at any time of the render thread
Call(m) ==
    /\ Charge(m)
    /\ LET out == CallOutcome(isReady, workletNode, port, m) IN
       /\ port' = out.port
       /\ callError' = (callError \/ out.error)
    /\ posted' = IF isReady /\ workletNode # 0 THEN Append(posted, m) ELSE posted
    /\ UNCHANGED <<sampleRateVal, channels, voices, pos, channelData, output1,
                   failed,
                   last, prev, quiet, stopFrom, burst, track>>
    /\ UNCHANGED <<isReady, workletNode, oldPorts, applied>>
    /\ UNCHANGED appVars

Control == \E m \in EngineCalls : Call(m)

\* variant: the message is handled wherever the sample loop is
DeliverAnywhere ==
    /\ port # << >>
    /\ Dispatch(Head(port))
    /\ port' = Tail(port)
    /\ applied' = Append(applied, Head(port))
    /\ UNCHANGED <<sampleRateVal, pos, channelData, output1, failed, budget>>
    /\ UNCHANGED <<isReady, workletNode, oldPorts, callError, posted>>
    /\ UNCHANGED appVars

\* port.onmessage of the processor: the host hands it the oldest message of
\* the port, between two process() calls
Deliver ==
    /\ pos = 0
    /\ port # << >>
    /\ Dispatch(Head(port))
    /\ port' = Tail(port)
    /\ applied' = Append(applied, Head(port))
    /\ UNCHANGED <<sampleRateVal, pos, channelData, output1, failed, budget>>
    /\ UNCHANGED <<isReady, workletNode, oldPorts, callError, posted>>
    /\ UNCHANGED appVars

\* the same for the processor of a node that init() has replaced
DeliverOld ==
    /\ pos = 0
    /\ \E k \in 1 .. Len(oldPorts) :
          /\ oldPorts[k].port # << >>
          /\ oldPorts' = [oldPorts EXCEPT ![k] =
                             [port |-> Tail(@.port), posted |-> @.posted,
                              applied |-> Append(@.applied, Head(@.port))]]
    /\ UNCHANGED <<sampleRateVal, channels, voices, pos, channelData, output1,
                   failed,
                   budget, last, prev, quiet, stopFrom, burst, track>>
    /\ UNCHANGED <<isReady, workletNode, port, callError, posted, applied>>
    /\ UNCHANGED appVars

\* one iteration of the sample loop; a block that has started runs to its end
EngineRender ==
    /\ workletNode # 0
    /\ ~failed
    /\ IF pos = 0
       THEN budget.samples > 0 /\ budget' = [budget EXCEPT !.samples = @ - 1]
       ELSE UNCHANGED budget
    /\ RenderSample
    /\ UNCHANGED engineVars
    /\ UNCHANGED appVars

EngineNext ==
    \/ InitOk
    \/ InitFail
    \/ Control
    \/ Deliver
    \/ DeliverOld
    \/ EngineRender

\* the host keeps handing the posted messages to the processors
EngineSpec ==
    /\ EngineInit
    /\ [][EngineNext]_vars
    /\ WF_vars(Deliver)
    /\ WF_vars(DeliverOld)

\* --------------------------------------------- the application (main.ts)
\* the file that is loaded has one note, on channel 0, within the first
\* lookahead window: noteOn(note.midi, note.velocity * 127, ch) and
\* noteOff(note.midi, ch) of that note
FileNoteOn == [type |-> "NOTE_ON", payload |-> [note |-> 69, velocity |-> 127, channel |-> 0]]
FileNoteOff == [type |-> "NOTE_OFF", payload |-> [note |-> 69, channel |-> 0]]

\* generateWt('rect'): 1 for the first half of the table, -1 for the second
RectTable == [i \in 1 .. WAVETABLE_SIZE |-> IF i <= WAVETABLE_SIZE \div 2 THEN WaveOne ELSE -WaveOne]

\* the values of the ADSR editor, { a: 0.1, d: 0.2, s: 0.5, r: 0.5 }, with the
\* attack handle dragged to its minimum of 0.01 s
DraggedADSR == [a |-> 480, d |-> 9600, s |-> LevelOne \div 2, r |-> 24000]

AppBudget == [clicks |-> AppClicks, samples |-> AppBlocks]

\* the application before the first click: no node yet
AppInit ==
    /\ sampleRateVal = ContextRate
    /\ Constructed
    /\ AppLoaded
    /\ budget = AppBudget
    /\ isReady = FALSE
    /\ workletNode = 0
    /\ port = << >>
    /\ oldPorts = << >>
    /\ callError = FALSE
    /\ posted = << >>
    /\ applied = << >>

\* one click on a control of the page
Click == budget.clicks > 0 /\ budget' = [budget EXCEPT !.clicks = @ - 1]

\* a control operation of the engine called with message m, the engine
\* having node `node` whose port holds q; the histories of the ports are not
\* kept here
Posting(ready, node, q, m) ==
    /\ LET out == CallOutcome(ready, node, q, m) IN
       /\ port' = out.port
       /\ callError' = (callError \/ out.error)
    /\ UNCHANGED posted

\* stopPlayback(): the timers of loop() are not cleared, only the animation
\* frame is cancelled; the timers pending at a stop are marked
StopPlaybackOn(ready, node, q) ==
    /\ isPlaying' = FALSE
    /\ Posting(ready, node, q, StopAllMsg)
    /\ timers' = {[t EXCEPT !.stale = TRUE] : t \in timers}

\* the two setTimeout calls of loop() for the note of the file
TimerIds == 1 .. (AppClicks + 2)
FreshId(ts) == CHOOSE n \in TimerIds :
                   /\ \A t \in ts : t.id # n
                   /\ \A k \in TimerIds : k < n => \E t \in ts : t.id = k
Scheduled(ts) ==
    ts \cup {[id |-> FreshId(ts), kind |-> "on", stale |-> FALSE],
             [id |-> FreshId(ts), kind |-> "off", stale |-> FALSE]}

\* the processor of the node that init() replaces, as it keeps running
Replaced == [port |-> port, voices |-> voices, channels |-> channels]

\* new AudioWorkletNode(...) in init(): a new processor is constructed
NodeCreated ==
    /\ isReady' = TRUE
    /\ workletNode' = workletNode + 1
    /\ oldPorts' = IF workletNode = 0 THEN oldPorts ELSE Append(oldPorts, Replaced)
    /\ UNCHANGED applied
    /\ channels' = NewChannels
    /\ voices' = NewVoices
    /\ channelData' = << >>
    /\ output1' = << >>
    /\ failed' = FALSE
    /\ last' = NoEvent
    /\ prev' = NewVoices
    /\ quiet' = FALSE
    /\ stopFrom' = [i \in VoiceIds |-> "IDLE"]
    /\ burst' = 0
    /\ track' = [i \in VoiceIds |-> IdleTrack]

\* a click on Play: startPlayback() runs up to "await synth.init()"
PlayClicked ==
    /\ Click
    /\ awaiting' = awaiting + 1
    /\ UNCHANGED <<sampleRateVal, channels, voices, pos, channelData, output1, failed,
                   last, prev, quiet, stopFrom, burst, track>>
    /\ UNCHANGED engineVars
    /\ UNCHANGED <<isPlaying, pauseTime, scheduledTill, seeking, timers,
                   editingChannel, channelStates>>

\* addModule() resolves: init() creates and connects its node, and the rest
\* of startPlayback() runs: a pause if it was playing, else a start from
\* pauseTime with the first call of loop()
PlayContinues ==
    /\ awaiting > 0
    /\ pos = 0
    /\ awaiting' = awaiting - 1
    /\ NodeCreated
    /\ IF isPlaying
       THEN /\ StopPlaybackOn(TRUE, workletNode + 1, << >>)
            /\ pauseTime' \in {0, 1}
            /\ UNCHANGED scheduledTill
       ELSE /\ isPlaying' = TRUE
            /\ Posting(TRUE, workletNode + 1, << >>, StopAllMsg)
            /\ timers' = IF pauseTime = 0 THEN Scheduled(timers) ELSE timers
            /\ scheduledTill' = 1
            /\ UNCHANGED pauseTime
    /\ UNCHANGED <<sampleRateVal, pos, budget>>
    /\ UNCHANGED <<seeking, editingChannel, channelStates>>

\* a click on Stop
StopClicked ==
    /\ Click
    /\ StopPlaybackOn(isReady, workletNode, port)
    /\ pauseTime' = 0
    /\ UNCHANGED <<sampleRateVal, channels, voices, pos, channelData, output1, failed,
                   last, prev, quiet, stopFrom, burst, track>>
    /\ UNCHANGED <<isReady, workletNode, oldPorts, applied>>
    /\ UNCHANGED <<awaiting, scheduledTill, seeking, editingChannel, channelStates>>

\* the seek bar is grabbed ('input'): playback stops
SeekInput ==
    /\ Click
    /\ ~seeking
    /\ seeking' = TRUE
    /\ IF isPlaying
       THEN StopPlaybackOn(isReady, workletNode, port)
       ELSE UNCHANGED <<isPlaying, port, callError, posted, timers>>
    /\ UNCHANGED <<sampleRateVal, channels, voices, pos, channelData, output1, failed,
                   last, prev, quiet, stopFrom, burst, track>>
    /\ UNCHANGED <<isReady, workletNode, oldPorts, applied>>
    /\ UNCHANGED <<awaiting, pauseTime, scheduledTill, editingChannel, channelStates>>

\* and released ('change') before or after the note
SeekChange ==
    /\ seeking
    /\ seeking' = FALSE
    /\ \E seekTime \in {0, 1} :
          /\ scheduledTill' = seekTime
          /\ pauseTime' = IF isPlaying THEN pauseTime ELSE seekTime
    /\ Posting(isReady, workletNode, port, StopAllMsg)
    /\ UNCHANGED <<sampleRateVal, channels, voices, pos, channelData, output1, failed,
                   budget, last, prev, quiet, stopFrom, burst, track>>
    /\ UNCHANGED <<isReady, workletNode, oldPorts, applied>>
    /\ UNCHANGED <<isPlaying, awaiting, timers, editingChannel, channelStates>>

\* loop() in an animation frame after the end of the file
SongEnds ==
    /\ isPlaying
    /\ StopPlaybackOn(isReady, workletNode, port)
    /\ pauseTime' = 0
    /\ UNCHANGED <<sampleRateVal, channels, voices, pos, channelData, output1, failed,
                   budget, last, prev, quiet, stopFrom, burst, track>>
    /\ UNCHANGED <<isReady, workletNode, oldPorts, applied>>
    /\ UNCHANGED <<awaiting, scheduledTill, seeking, editingChannel, channelStates>>

\* loop() in an animation frame that finds the note in its window
LoopSchedules ==
    /\ isPlaying
    /\ scheduledTill = 0
    /\ timers' = Scheduled(timers)
    /\ scheduledTill' = 1
    /\ UNCHANGED <<sampleRateVal, channels, voices, pos, channelData, output1, failed,
                   budget, last, prev, quiet, stopFrom, burst, track>>
    /\ UNCHANGED engineVars
    /\ UNCHANGED <<isPlaying, awaiting, pauseTime, seeking, editingChannel,
                   channelStates>>

\* a setTimeout callback of loop() runs; the note-off timer of a note runs
\* after its note-on timer
TimerFires ==
    \E t \in timers :
        /\ t.kind = "off" => ~\E u \in timers : u.id = t.id /\ u.kind = "on"
        /\ timers' = timers \ {t}
        /\ IF isPlaying
           THEN Posting(isReady, workletNode, port,
                        IF t.kind = "on" THEN FileNoteOn ELSE FileNoteOff)
           ELSE UNCHANGED <<port, callError, posted>>
        /\ UNCHANGED <<sampleRateVal, channels, voices, pos, channelData, output1,
                       failed, budget, last, prev, quiet, stopFrom, burst, track>>
        /\ UNCHANGED <<isReady, workletNode, oldPorts, applied>>
        /\ UNCHANGED <<isPlaying, awaiting, pauseTime, scheduledTill, seeking,
                       editingChannel, channelStates>>

\* the callback of the wavetable editor, for a preset or a drawn table
EditWavetable ==
    /\ Click
    /\ \E wf \in {RectTable} :
          /\ Posting(isReady, workletNode, port,
                     [type |-> "SET_CHANNEL_WAVETABLE",
                      payload |-> [channel |-> editingChannel, wavetable |-> wf]])
          /\ channelStates' = [channelStates EXCEPT ![editingChannel].wavetable = wf]
    /\ UNCHANGED <<sampleRateVal, channels, voices, pos, channelData, output1, failed,
                   last, prev, quiet, stopFrom, burst, track>>
    /\ UNCHANGED <<isReady, workletNode, oldPorts, applied>>
    /\ UNCHANGED <<isPlaying, awaiting, pauseTime, scheduledTill, seeking, timers,
                   editingChannel>>

\* the callback of the ADSR editor, for a dragged handle
EditADSR ==
    /\ Click
    /\ \E adsr \in {DraggedADSR} :
          /\ Posting(isReady, workletNode, port,
                     [type |-> "SET_CHANNEL_ADSR",
                      payload |-> [channel |-> editingChannel, adsr |-> adsr]])
          /\ channelStates' = [channelStates EXCEPT ![editingChannel].adsr = adsr]
    /\ UNCHANGED <<sampleRateVal, channels, voices, pos, channelData, output1, failed,
                   last, prev, quiet, stopFrom, burst, track>>
    /\ UNCHANGED <<isReady, workletNode, oldPorts, applied>>
    /\ UNCHANGED <<isPlaying, awaiting, pauseTime, scheduledTill, seeking, timers,
                   editingChannel>>

\* the Edit radio of another channel: updateEditorLabels() loads the copy of
\* that channel into the editors, and setWaveform() calls the wavetable
\* callback with it
SelectEditChannel ==
    /\ Click
    /\ \E c \in {0, 1} \ {editingChannel} :
          /\ editingChannel' = c
          /\ Posting(isReady, workletNode, port,
                     [type |-> "SET_CHANNEL_WAVETABLE",
                      payload |-> [channel |-> c,
                                   wavetable |-> channelStates[c].wavetable]])
    /\ UNCHANGED <<sampleRateVal, channels, voices, pos, channelData, output1, failed,
                   last, prev, quiet, stopFrom, burst, track>>
    /\ UNCHANGED <<isReady, workletNode, oldPorts, applied>>
    /\ UNCHANGED <<isPlaying, awaiting, pauseTime, scheduledTill, seeking, timers,
                   channelStates>>

\* port.onmessage of the processor of workletNode
AppDeliver ==
    /\ pos = 0
    /\ port # << >>
    /\ Dispatch(Head(port))
    /\ port' = Tail(port)
    /\ UNCHANGED <<sampleRateVal, pos, channelData, output1, failed, budget>>
    /\ UNCHANGED <<isReady, workletNode, oldPorts, callError, posted, applied>>
    /\ UNCHANGED appVars

\* port.onmessage of the processor of a replaced node
DeliverReplaced ==
    /\ pos = 0
    /\ \E k \in 1 .. Len(oldPorts) :
          /\ oldPorts[k].port # << >>
          /\ oldPorts' = [oldPorts EXCEPT ![k] =
                [port |-> Tail(@.port),
                 voices |-> VoicesAfter(Head(@.port), @.voices, sampleRateVal),
                 channels |-> ChannelsAfter(Head(@.port), @.channels)]]
    /\ UNCHANGED <<sampleRateVal, channels, voices, pos, channelData, output1,
                   failed, budget, last, prev, quiet, stopFrom, burst, track>>
    /\ UNCHANGED <<isReady, workletNode, port, callError, posted, applied>>
    /\ UNCHANGED appVars

\* one iteration of the sample loop of every connected processor
AppRender ==
    /\ workletNode # 0
    /\ ~failed
    /\ IF pos = 0
       THEN budget.samples > 0 /\ budget' = [budget EXCEPT !.samples = @ - 1]
       ELSE UNCHANGED budget
    /\ RenderSample
    /\ oldPorts' = [k \in 1 .. Len(oldPorts) |->
                       [oldPorts[k] EXCEPT
                           !.voices = RenderVoices(@, oldPorts[k].channels,
                                                   sampleRateVal, 1)]]
    /\ UNCHANGED <<isReady, workletNode, port, callError, posted, applied>>
    /\ UNCHANGED appVars

AppNext ==
    \/ PlayClicked
    \/ PlayContinues
    \/ StopClicked
    \/ SeekInput
    \/ SeekChange
    \/ SongEnds
    \/ LoopSchedules
    \/ TimerFires
    \/ EditWavetable
    \/ EditADSR
    \/ SelectEditChannel
    \/ AppDeliver
    \/ DeliverReplaced
    \/ AppRender

AppSpec == AppInit /\ [][AppNext]_vars

TypeOK ==
    /\ pos \in 0 .. (BlockLen - 1)
    /\ failed \in BOOLEAN
    /\ \A i \in VoiceIds : voices[i].envState \in {"IDLE", "ATTACK", "DECAY", "SUSTAIN", "RELEASE"}

\* ================================================================ claims
Sounding == {"ATTACK", "DECAY", "SUSTAIN"}

ActiveCount(vs) == Cardinality({i \in VoiceIds : vs[i].active})

\* C1: in every reachable state, every voice whose envState is IDLE has
\* envLevel = 0 and active = FALSE.
C1_IdleIsSilent ==
    \A i \in VoiceIds :
        voices[i].envState = "IDLE" =>
            voices[i].envLevel = 0 /\ voices[i].active = FALSE

\* a rendered sample has just made IDLE a voice that was releasing at a
\* positive level
C1_Witness ==
    /\ ~failed
    /\ last.type = "PROCESS"
    /\ \E i \in VoiceIds :
          /\ prev[i].envState = "RELEASE"
          /\ prev[i].envLevel > 0
          /\ voices[i].envState = "IDLE"

\* C2 (as claimed): in every reachable state every voice's envLevel lies in
\* [0, 1], whatever SET_CHANNEL_ADSR commands were applied.
C2_EnvLevelInUnitRange ==
    \A i \in VoiceIds : voices[i].envLevel >= 0 /\ voices[i].envLevel <= LevelOne

\* C3 (as claimed): in every reachable state every voice's phase lies in
\* [0, WAVETABLE_SIZE), for NOTE_ONs with note in 0..127.
C3_PhaseInTable ==
    \A i \in VoiceIds :
        voices[i].phase >= 0 /\ voices[i].phase < WAVETABLE_SIZE * PhaseOne

\* C4 (as claimed): rendering never raises an error, whatever commands were
\* handled before.
C4_RenderNeverFails == ~failed

\* C5 (as claimed): handling a NOTE_ON, NOTE_OFF, SET_CHANNEL_WAVETABLE or
\* SET_CHANNEL_ADSR whose channel is outside 0..15 changes no voice and no
\* channel state.
InvalidChannelMsgs ==
    {m \in NoteOnMsgs \cup NoteOffMsgs \cup WavetableMsgs \cup ADSRMsgs :
        ~ChannelExists(m.payload.channel)}

C5_InvalidChannelIsNoOp ==
    [][\A m \in InvalidChannelMsgs :
          HandleMessage(m) => (voices' = voices /\ channels' = channels)]_vars

\* C6: right after STOP_ALL is handled every one of the 6 voices is IDLE with
\* envLevel = 0 and active = FALSE, whatever its state was before (none is
\* put in RELEASE).
C6_StopAllIdlesEveryVoice ==
    last.type = "STOP_ALL" =>
        \A i \in VoiceIds :
            /\ voices[i].envState = "IDLE"
            /\ voices[i].envLevel = 0
            /\ voices[i].active = FALSE

\* STOP_ALL has just hit a pool holding a sounding voice and a releasing voice
C6_Witness ==
    /\ ~failed
    /\ last.type = "STOP_ALL"
    /\ \E i, j \in VoiceIds :
          /\ prev[i].envState \in Sounding /\ prev[i].envLevel > 0
          /\ prev[j].envState = "RELEASE" /\ prev[j].envLevel > 0

\* C7: from STOP_ALL until the next NOTE_ON, every rendered sample is 0 and
\* every voice's gain envLevel * velocity is 0, whatever the voices were doing
\* when STOP_ALL arrived.
C7_SilentAfterStopAll ==
    (quiet /\ last.type = "PROCESS") =>
        /\ ~failed
        /\ Len(channelData) > 0
        /\ channelData[Len(channelData)] = Num(0)
        /\ \A i \in VoiceIds : voices[i].envLevel = 0 \/ voices[i].velocity = 0

\* a sample has been rendered after a STOP_ALL that cut a sounding voice and a
\* releasing one
C7_Witness ==
    /\ ~failed
    /\ quiet
    /\ last.type = "PROCESS"
    /\ \E i, j \in VoiceIds :
          /\ stopFrom[i] \in Sounding /\ voices[i].velocity > 0
          /\ stopFrom[j] = "RELEASE" /\ voices[j].releaseStartLevel > 0

\* C8: NOTE_ON claims exactly one slot and leaves the others alone: the
\* lowest-index IDLE voice; if there is none, the lowest-index RELEASE voice;
\* if there is none either, slot 0.
PriorSlot(k) ==
    \/ /\ prev[k].envState = "IDLE"
       /\ \A j \in VoiceIds : j < k => prev[j].envState # "IDLE"
    \/ /\ \A j \in VoiceIds : prev[j].envState # "IDLE"
       /\ prev[k].envState = "RELEASE"
       /\ \A j \in VoiceIds : j < k => prev[j].envState # "RELEASE"
    \/ /\ \A j \in VoiceIds : prev[j].envState \notin {"IDLE", "RELEASE"}
       /\ k = 0

C8_SlotSelection ==
    last.type = "NOTE_ON" =>
        \E k \in VoiceIds :
            /\ PriorSlot(k)
            /\ voices[k].envState = "ATTACK"
            /\ voices[k].note = last.payload.note
            /\ voices[k].channel = last.payload.channel
            /\ voices[k].envLevel = 0
            /\ \A j \in VoiceIds : j # k => voices[j] = prev[j]

\* a NOTE_ON has just stolen slot 0 from a pool with no IDLE and no RELEASE
\* voice, slot 0 holding another note
C8_Witness ==
    /\ ~failed
    /\ last.type = "NOTE_ON"
    /\ \A j \in VoiceIds : prev[j].envState \in Sounding
    /\ prev[0].note # last.payload.note
    /\ voices[0].note = last.payload.note

\* C9: at most N = 6 voices are active, and N + 1 NOTE_ONs handled in a row
\* from an all-IDLE pool leave exactly N voices active.
C9_PolyphonyLimit ==
    /\ ActiveCount(voices) <= NumVoices
    /\ \A n \in 1 .. (NumVoices + 1) :
          burst = n => ActiveCount(voices) = (IF n < NumVoices THEN n ELSE NumVoices)

C9_Witness == ~failed /\ burst = NumVoices + 1 /\ ActiveCount(voices) = NumVoices

\* C10: right after NOTE_OFF(note, channel), every voice that was active with
\* that note and channel in ATTACK, DECAY or SUSTAIN is in RELEASE with
\* releaseStartLevel equal to its envLevel, and no voice with that note and
\* channel is left in ATTACK, DECAY or SUSTAIN.
C10_NoteOffReleasesAllMatching ==
    last.type = "NOTE_OFF" =>
        /\ \A i \in VoiceIds :
              ( /\ prev[i].active
                /\ prev[i].note = last.payload.note
                /\ prev[i].channel = last.payload.channel
                /\ prev[i].envState \in Sounding )
              => /\ voices[i].envState = "RELEASE"
                 /\ voices[i].releaseStartLevel = prev[i].envLevel
                 /\ voices[i].envLevel = prev[i].envLevel
        /\ \A i \in VoiceIds :
              ( /\ voices[i].note = last.payload.note
                /\ voices[i].channel = last.payload.channel )
              => voices[i].envState \notin Sounding

\* a NOTE_OFF has just released two voices holding the same note and channel
\* at different levels
C10_Witness ==
    /\ ~failed
    /\ last.type = "NOTE_OFF"
    /\ \E i, j \in VoiceIds :
          /\ i # j
          /\ prev[i].envState \in Sounding /\ voices[i].envState = "RELEASE"
          /\ prev[j].envState \in Sounding /\ voices[j].envState = "RELEASE"
          /\ voices[i].releaseStartLevel > voices[j].releaseStartLevel

C12_ReleaseNonIncreasing ==
    last.type = "PROCESS" =>
        \A i \in VoiceIds :
            prev[i].envState = "RELEASE" => voices[i].envLevel <= prev[i].envLevel

\* C13 (as claimed): a voice released by triggerRelease and not claimed again
\* is IDLE once (a + d + r) * sampleRate samples, and at least one, have been
\* rendered for it, a, d and r being the ADSR times its channel had at the
\* release: a voice still in RELEASE after k >= 1 samples has
\* k < (a + d + r) * sampleRate.
C13_IdleWithinADR ==
    \A i \in VoiceIds :
        ( /\ voices[i].envState = "RELEASE"
          /\ ChannelExists(voices[i].channel)
          /\ track[i].relAge >= 1 )
        => track[i].relAge * (TicksPerSecond \div sampleRateVal) < track[i].relTicks

\* C14 (last' is the message the step handles): SET_CHANNEL_WAVETABLE on a
\* channel in 0..15 overwrites that channel's
\* wavetable if and only if the payload has exactly 32 samples: with 32
\* samples the stored table equals the payload element by element and nothing
\* else changes; with any other length no channel state changes.
C14_WavetableIffFullLength ==
    [][(/\ last'.type = "SET_CHANNEL_WAVETABLE"
        /\ ChannelExists(last'.payload.channel)) =>
           IF Len(last'.payload.wavetable) = WAVETABLE_SIZE
           THEN /\ \A i \in 1 .. WAVETABLE_SIZE :
                     channels'[last'.payload.channel].wavetable[i]
                         = last'.payload.wavetable[i]
                /\ channels'[last'.payload.channel].adsr
                       = channels[last'.payload.channel].adsr
                /\ \A c \in ChannelIds :
                     c # last'.payload.channel => channels'[c] = channels[c]
           ELSE channels' = channels]_vars

\* a payload of 31 samples has just been handled on a channel whose table an
\* earlier payload of 32 samples had overwritten: that table is still there
C14_Witness ==
    /\ ~failed
    /\ last.type = "SET_CHANNEL_WAVETABLE"
    /\ ChannelExists(last.payload.channel)
    /\ Len(last.payload.wavetable) # WAVETABLE_SIZE
    /\ channels[last.payload.channel].wavetable = ZeroTable

\* C15 (as claimed): the sustain level the engine uses for a channel lies in
\* [0, 1], whatever s a caller passed to setChannelADSR.
C15_SustainClamped ==
    \A c \in ChannelIds : channels[c].adsr.s >= 0 /\ channels[c].adsr.s <= LevelOne

\* C16 (as claimed): a SET_CHANNEL_ADSR whose a, d or r is negative or whose
\* s is outside [0, 1] leaves every channel's ADSR unchanged.
OutOfRangeADSRMsgs ==
    {m \in ADSRMsgs :
        \/ m.payload.adsr.a < 0 \/ m.payload.adsr.d < 0 \/ m.payload.adsr.r < 0
        \/ m.payload.adsr.s < 0 \/ m.payload.adsr.s > LevelOne}

C16_OutOfRangeADSRIgnored ==
    [][\A m \in OutOfRangeADSRMsgs : HandleMessage(m) => channels' = channels]_vars

\* C17: right after SET_CHANNEL_ADSR on a channel in 0..15, that channel's a,
\* d, s and r equal the payload's, whatever their values.
C17_ADSROverwritten ==
    (last.type = "SET_CHANNEL_ADSR" /\ ChannelExists(last.payload.channel)) =>
        /\ channels[last.payload.channel].adsr.a = last.payload.adsr.a
        /\ channels[last.payload.channel].adsr.d = last.payload.adsr.d
        /\ channels[last.payload.channel].adsr.s = last.payload.adsr.s
        /\ channels[last.payload.channel].adsr.r = last.payload.adsr.r

\* an ADSR with negative times and s above 1 has just replaced another ADSR
\* set by an earlier command, while a voice was sounding on the channel
C17_Witness ==
    /\ ~failed
    /\ last.type = "SET_CHANNEL_ADSR"
    /\ last.payload.adsr = BadADSR
    /\ channels[last.payload.channel].adsr = BadADSR
    /\ \E i \in VoiceIds :
          /\ voices[i].envState \in Sounding
          /\ voices[i].channel = last.payload.channel
          /\ voices[i].envLevel > 0

\* C18: while the engine is not ready (init() not completed, or failed),
\* every control operation returns without error and without effect: nothing
\* is posted, no voice and no channel state changes, and nothing has been
\* posted or handled as long as the engine is not ready.
C18_NotReadyIsNoOp ==
    /\ [](~isReady =>
            /\ ~callError
            /\ port = << >> /\ posted = << >> /\ applied = << >>
            /\ oldPorts = << >>
            /\ voices = NewVoices /\ channels = NewChannels)
    /\ [][\A m \in EngineCalls :
            (Call(m) /\ ~isReady) =>
                UNCHANGED <<port, posted, applied, oldPorts, callError,
                            voices, channels, isReady, workletNode>>]_vars

\* init() has failed and noteOn and another control operation have been
\* called since the engine was built, which is still not ready
C18_Witness ==
    /\ ~isReady
    /\ budget.inits < EngInits
    /\ budget.noteOns = 0
    /\ budget.controls = 0

\* C19: on the port of every node, the commands handled so far followed by
\* the commands still pending are exactly the commands posted, in posting
\* order (none lost, duplicated or overtaken), and, every block that starts
\* being rendered to its end, in the end every posted command has been
\* handled.
C19_ReliableFIFO ==
    /\ [](/\ applied \o port = posted
          /\ \A k \in 1 .. Len(oldPorts) :
                oldPorts[k].applied \o oldPorts[k].port = oldPorts[k].posted)
    /\ ([]<>(pos = 0)) =>
           <>[](/\ port = << >>
                /\ \A k \in 1 .. Len(oldPorts) : oldPorts[k].port = << >>)

\* every posted command has been handled: two commands of different kinds in
\* posting order, or a command posted to a node that init() replaced
\* afterwards
C19_Witness ==
    /\ port = << >>
    /\ Len(applied) + Len(oldPorts) >= 2
    /\ applied # << >>
    /\ applied = posted
    /\ \/ Len(applied) >= 2 /\ applied[1].type # applied[2].type
       \/ \E k \in 1 .. Len(oldPorts) :
             oldPorts[k].applied # << >> /\ oldPorts[k].port = << >>

Rendered(i) ==
    /\ last.type = "PROCESS"
    /\ prev[i].active
    /\ i < FirstThrow(prev)

\* C21: a sample rendered for a voice in ATTACK whose channel has a <= 0
\* leaves the voice in DECAY with envLevel = 1.0, so the first sample rendered
\* after the NOTE_ON does.
C21_ZeroAttackJumps ==
    \A i \in VoiceIds :
        ( /\ Rendered(i)
          /\ prev[i].envState = "ATTACK"
          /\ channels[prev[i].channel].adsr.a <= 0 )
        => /\ voices[i].envLevel = LevelOne
           /\ voices[i].envState = "DECAY"

\* the first sample rendered after a NOTE_ON on a channel with a = 0 has just
\* taken the voice from level 0 to DECAY
C21_Witness ==
    /\ ~failed
    /\ \E i \in VoiceIds :
          /\ Rendered(i)
          /\ prev[i].envState = "ATTACK"
          /\ prev[i].envLevel = 0
          /\ channels[prev[i].channel].adsr.a = 0
          /\ track[i].trail = <<"ATTACK", "DECAY">>
          /\ voices[i].envLevel = LevelOne

\* the NOTE_OFF just handled released voice i, whose channel has r <= 0
ReleasedWithZeroR(i) ==
    /\ last.type = "NOTE_OFF"
    /\ ReleaseMatches(prev[i], last.payload.note, last.payload.channel)
    /\ ChannelExists(prev[i].channel)
    /\ channels[prev[i].channel].adsr.r <= 0

\* C22 (as claimed): once NOTE_OFF has been applied to a voice whose channel
\* has r = 0, the voice is IDLE with envLevel 0 and active = FALSE.
C22_IdleOnNoteOff ==
    \A i \in VoiceIds :
        ReleasedWithZeroR(i) =>
            /\ voices[i].envState = "IDLE"
            /\ voices[i].envLevel = 0
            /\ voices[i].active = FALSE

\* C22 (amended): NOTE_OFF leaves such a voice active in RELEASE at the level
\* it had, and a sample rendered for a voice in RELEASE whose channel has
\* r <= 0 leaves it IDLE with envLevel 0 and active = FALSE.
C22_IdleOnNextSample ==
    \A i \in VoiceIds :
        /\ ReleasedWithZeroR(i) =>
              /\ voices[i].envState = "RELEASE"
              /\ voices[i].active
              /\ voices[i].envLevel = prev[i].envLevel
        /\ ( /\ Rendered(i)
             /\ prev[i].envState = "RELEASE"
             /\ channels[prev[i].channel].adsr.r <= 0 )
           => /\ voices[i].envState = "IDLE"
              /\ voices[i].envLevel = 0
              /\ voices[i].active = FALSE

\* the first sample rendered after the NOTE_OFF has just made IDLE a voice
\* released at a positive level on a channel with r = 0
C22_Witness ==
    /\ ~failed
    /\ \E i \in VoiceIds :
          /\ Rendered(i)
          /\ prev[i].envState = "RELEASE"
          /\ prev[i].envLevel > 0
          /\ channels[prev[i].channel].adsr.r = 0
          /\ track[i].relAge = 1
          /\ voices[i].envState = "IDLE"

\* C23: at 48 kHz with adsr {a: 0.1, d: 0.1, s: 0.5, r: 0.2}, after one
\* NOTE_ON(69, 127, 0) at sample 0 and no other command, the voice is in
\* ATTACK after each of the first 4799 samples, and after 4800 samples it has
\* envLevel = 1.0 and is in DECAY.
C23_DecayAtSample4800 ==
    ( /\ budget.noteOns = ScnNoteOns - 1
      /\ budget.controls = ScnNoteOffs
      /\ channels[0].adsr = [a |-> 4800, d |-> 4800, s |-> LevelOne \div 2, r |-> 9600] )
    => /\ SamplesRendered < 4800 =>
              /\ voices[0].envState = "ATTACK"
              /\ voices[0].envLevel < LevelOne
       /\ SamplesRendered = 4800 =>
              /\ voices[0].envState = "DECAY"
              /\ voices[0].envLevel = LevelOne

\* 4800 samples have been rendered after the single NOTE_ON, the last of them
\* taking the voice from ATTACK to DECAY
C23_Witness ==
    /\ ~failed
    /\ budget.noteOns = ScnNoteOns - 1
    /\ budget.controls = ScnNoteOffs
    /\ SamplesRendered = 4800
    /\ last.type = "PROCESS"
    /\ prev[0].envState = "ATTACK"
    /\ voices[0].envState = "DECAY"
    /\ voices[0].note = 69

\* C24 (last' is the message the step handles, or PROCESS for a rendered
\* sample): a step changes the channel states only when it handles a
\* SET_CHANNEL_WAVETABLE or a SET_CHANNEL_ADSR, and then only the state of the
\* channel the command names; NOTE_ON, NOTE_OFF, STOP_ALL and every rendered
\* sample leave all 16 channel states as they are.
C24_ChannelsOnlyBySet ==
    /\ [][channels' # channels =>
             /\ last'.type \in {"SET_CHANNEL_WAVETABLE", "SET_CHANNEL_ADSR"}
             /\ ChannelExists(last'.payload.channel)
             /\ \A c \in ChannelIds :
                   c # last'.payload.channel => channels'[c] = channels[c]]_vars
    /\ [][last'.type \in {"NOTE_ON", "NOTE_OFF", "STOP_ALL", "PROCESS"} =>
             channels' = channels]_vars

\* STOP_ALL has just cut a sounding voice of a channel whose ADSR an earlier
\* command had replaced, after samples were rendered for it: the ADSR is still
\* the replaced one
C24_Witness ==
    /\ ~failed
    /\ last.type = "STOP_ALL"
    /\ channels[0].adsr = FastADSR
    /\ \E i \in VoiceIds :
          /\ stopFrom[i] \in Sounding
          /\ prev[i].channel = 0
          /\ track[i].rendered

Here == [voices |-> voices, channels |-> channels]

NoteMsgs == NoteOnMsgs \cup NoteOffMsgs \cup {StopAllMsg}

\* C25 (as claimed): between two blocks, any two commands handled in either
\* order give the same samples in the next block.
C25_OrderIrrelevant ==
    pos = 0 =>
        \A m1, m2 \in AllMsgs :
            BlockAfter(AfterBoth(m1, m2, Here, sampleRateVal), sampleRateVal)
                = BlockAfter(AfterBoth(m2, m1, Here, sampleRateVal), sampleRateVal)

\* C25 (amended): between two blocks, a SET_CHANNEL_WAVETABLE or
\* SET_CHANNEL_ADSR and a NOTE_ON, NOTE_OFF or STOP_ALL, or a
\* SET_CHANNEL_WAVETABLE and a SET_CHANNEL_ADSR, handled in either order leave
\* the same voices and the same channel states, hence the same samples in
\* every later block.
C25_SetCommutes ==
    pos = 0 =>
        /\ \A m1 \in WavetableMsgs \cup ADSRMsgs : \A m2 \in NoteMsgs :
              AfterBoth(m1, m2, Here, sampleRateVal)
                  = AfterBoth(m2, m1, Here, sampleRateVal)
        /\ \A m1 \in WavetableMsgs : \A m2 \in ADSRMsgs :
              AfterBoth(m1, m2, Here, sampleRateVal)
                  = AfterBoth(m2, m1, Here, sampleRateVal)

\* a voice is sounding between two blocks, and a SET_CHANNEL_ADSR for its
\* channel and a NOTE_OFF for its note, each of which changes the samples of
\* the next block, give the same block in either order
C25_Witness ==
    /\ ~failed
    /\ pos = 0
    /\ \E i \in VoiceIds : voices[i].envState \in Sounding /\ voices[i].envLevel > 0
    /\ \E m1 \in ADSRMsgs : \E m2 \in NoteOffMsgs :
          /\ BlockAfter(After(m1, Here, sampleRateVal), sampleRateVal)
                 # BlockAfter(Here, sampleRateVal)
          /\ BlockAfter(After(m2, Here, sampleRateVal), sampleRateVal)
                 # BlockAfter(Here, sampleRateVal)
          /\ BlockAfter(AfterBoth(m1, m2, Here, sampleRateVal), sampleRateVal)
                 = BlockAfter(AfterBoth(m2, m1, Here, sampleRateVal), sampleRateVal)

\* val * currentGain of voice i in the sample just rendered: the table of its
\* channel read at the phase it had before the sample, times the level the
\* sample left it with, times its velocity
Term(i) ==
    Trunc(Interpolate(channels[prev[i].channel].wavetable, prev[i].phase)
              * voices[i].velocity, 127)
        * Trunc(voices[i].envLevel, LevelOne \div GainOne)

RECURSIVE SumTerms(_, _)
SumTerms(S, n) ==
    IF n = 0 THEN 0
    ELSE SumTerms(S, n - 1) + (IF (n - 1) \in S THEN Term(n - 1) ELSE 0)

\* the sample that the voices of S, and no other voice, add up to
MixOf(S) ==
    IF \E i \in S : ~TableDefined(prev[i].phase) THEN NaN
    ELSE Num(Trunc(SumTerms(S, NumVoices), 4))

WasActive == {i \in VoiceIds : prev[i].active}

Audible == {i \in WasActive : GainAudible(voices[i].envLevel, voices[i].velocity)}

ExpectedPhaseStep(note, rate) ==
    IF note = 69 THEN (IF rate = 48000 THEN 22 ELSE 132)
    ELSE (IF rate = 48000 THEN 627 ELSE 3763)

\* C27: right after NOTE_ON the claimed slot (IDLE, in RELEASE or stolen) has
\* the channel, note and velocity of the command, phaseStep = 440 *
\* 2^((note - 69) / 12) / sampleRate * 32, phase = 0, envLevel = 0,
\* envTime = 0, envState = ATTACK and active = TRUE.
C27_AttackSetsVoice ==
    last.type = "NOTE_ON" =>
        \E k \in VoiceIds :
            /\ PriorSlot(k)
            /\ voices[k].channel = last.payload.channel
            /\ voices[k].note = last.payload.note
            /\ voices[k].velocity = last.payload.velocity
            /\ voices[k].phaseStep
                   = ExpectedPhaseStep(last.payload.note, sampleRateVal)
            /\ voices[k].phase = 0
            /\ voices[k].envLevel = 0
            /\ voices[k].envTime = 0
            /\ voices[k].envState = "ATTACK"
            /\ voices[k].active = TRUE

\* a NOTE_ON has just claimed a slot that an earlier note had left with
\* another note, another step and a phase that is not 0
C27_Witness ==
    /\ ~failed
    /\ last.type = "NOTE_ON"
    /\ \E k \in VoiceIds :
          /\ PriorSlot(k)
          /\ prev[k].phase > 0
          /\ prev[k].note # last.payload.note
          /\ prev[k].phaseStep # voices[k].phaseStep
          /\ voices[k].phase = 0
          /\ voices[k].envState = "ATTACK"

\* C28: the envState of a voice changes only along these edges: to ATTACK
\* when NOTE_ON claims the slot; ATTACK to DECAY, DECAY to SUSTAIN and RELEASE
\* to IDLE when a sample is rendered; ATTACK, DECAY or SUSTAIN to RELEASE when
\* NOTE_OFF is handled; to IDLE when STOP_ALL is handled.  So rendering never
\* takes a voice from ATTACK, DECAY or SUSTAIN to IDLE or to RELEASE, nor from
\* ATTACK to SUSTAIN.
C28_EnvStateEdges ==
    \A i \in VoiceIds :
        voices[i].envState # prev[i].envState =>
            \/ /\ last.type = "NOTE_ON"
               /\ PriorSlot(i)
               /\ voices[i].envState = "ATTACK"
            \/ /\ last.type = "PROCESS"
               /\ <<prev[i].envState, voices[i].envState>>
                      \in {<<"ATTACK", "DECAY">>, <<"DECAY", "SUSTAIN">>,
                           <<"RELEASE", "IDLE">>}
            \/ /\ last.type = "NOTE_OFF"
               /\ prev[i].envState \in Sounding
               /\ voices[i].envState = "RELEASE"
            \/ /\ last.type = "STOP_ALL"
               /\ voices[i].envState = "IDLE"

\* with a = d = 0 the second sample rendered for a voice has just taken it
\* from DECAY to SUSTAIN, the first having taken it from ATTACK to DECAY
C28_Witness ==
    /\ ~failed
    /\ last.type = "PROCESS"
    /\ \E i \in VoiceIds :
          /\ prev[i].envState = "DECAY"
          /\ voices[i].envState = "SUSTAIN"
          /\ track[i].trail = <<"ATTACK", "DECAY", "SUSTAIN">>
          /\ channels[voices[i].channel].adsr = ZeroADSR

\* C29: a sample rendered for a voice in SUSTAIN leaves it in SUSTAIN with
\* envLevel equal to the sustain ratio s its channel has at that sample, so a
\* SET_CHANNEL_ADSR handled during SUSTAIN shows in the level from the next
\* sample on.
C29_SustainTracksS ==
    \A i \in VoiceIds :
        (Rendered(i) /\ prev[i].envState = "SUSTAIN") =>
            /\ voices[i].envState = "SUSTAIN"
            /\ voices[i].envLevel = channels[prev[i].channel].adsr.s

\* a sample has just moved a sustaining voice to the s of a SET_CHANNEL_ADSR
\* handled since the sample before
C29_Witness ==
    /\ ~failed
    /\ \E i \in VoiceIds :
          /\ Rendered(i)
          /\ prev[i].envState = "SUSTAIN"
          /\ track[i].trail = <<"ATTACK", "DECAY", "SUSTAIN">>
          /\ prev[i].envLevel = 0
          /\ voices[i].envLevel = LevelOne \div 2
          /\ channels[prev[i].channel].adsr = FastADSR

\* phase + phaseStep, less 32 slots when that is 32 or more
PhaseAfterOneStep(v) ==
    IF v.phase + v.phaseStep >= WAVETABLE_SIZE * PhaseOne
    THEN v.phase + v.phaseStep - WAVETABLE_SIZE * PhaseOne
    ELSE v.phase + v.phaseStep

\* C30 (as claimed): every sample rendered for an active voice that stays
\* active advances its phase by phaseStep, less 32 when the sum is 32 or more,
\* whatever its gain.
C30_PhaseAdvancesEverySample ==
    \A i \in VoiceIds :
        (Rendered(i) /\ voices[i].active) =>
            voices[i].phase = PhaseAfterOneStep(prev[i])

\* C31: a sample rendered for a voice in a stage whose duration is zero or
\* negative makes the jump at once: ATTACK with a <= 0 leaves envLevel = 1 and
\* DECAY, DECAY with d <= 0 leaves envLevel = s and SUSTAIN, RELEASE with
\* r <= 0 leaves envLevel = 0 and IDLE with active = FALSE; none of the three
\* divides by the duration.
C31_ZeroDurationJumps ==
    \A i \in VoiceIds :
        Rendered(i) =>
            LET adsr == channels[prev[i].channel].adsr IN
            /\ (prev[i].envState = "ATTACK" /\ adsr.a <= 0) =>
                   /\ voices[i].envLevel = LevelOne
                   /\ voices[i].envState = "DECAY"
            /\ (prev[i].envState = "DECAY" /\ adsr.d <= 0) =>
                   /\ voices[i].envLevel = adsr.s
                   /\ voices[i].envState = "SUSTAIN"
            /\ (prev[i].envState = "RELEASE" /\ adsr.r <= 0) =>
                   /\ voices[i].envLevel = 0
                   /\ voices[i].envState = "IDLE"
                   /\ ~voices[i].active

\* on a channel whose durations are all 0, a voice has made the three jumps
\* in three samples: the last sample took it from RELEASE to IDLE, the ones
\* before from ATTACK to DECAY and from DECAY to SUSTAIN
C31_Witness ==
    /\ ~failed
    /\ \E i \in VoiceIds :
          /\ Rendered(i)
          /\ prev[i].envState = "RELEASE"
          /\ channels[prev[i].channel].adsr = ZeroADSR
          /\ track[i].trail = <<"ATTACK", "DECAY", "SUSTAIN", "RELEASE", "IDLE">>
          /\ ~voices[i].active

\* C32: NOTE_OFF(note, channel) changes no voice other than the matching
\* ones: a voice that is inactive, has another note or channel, or is already
\* in RELEASE or IDLE keeps every field; a NOTE_OFF that matches no voice
\* leaves the whole pool as it was.
C32_NoteOffFrame ==
    last.type = "NOTE_OFF" =>
        /\ \A i \in VoiceIds :
              ~ReleaseMatches(prev[i], last.payload.note, last.payload.channel)
                  => voices[i] = prev[i]
        /\ (\A i \in VoiceIds :
               ~ReleaseMatches(prev[i], last.payload.note, last.payload.channel))
               => voices = prev

\* a NOTE_OFF has just released one voice while another voice of the same
\* note and channel, released earlier and still sounding, kept its level and
\* its releaseStartLevel
C32_Witness ==
    /\ ~failed
    /\ last.type = "NOTE_OFF"
    /\ \E i, j \in VoiceIds :
          /\ ReleaseMatches(prev[i], last.payload.note, last.payload.channel)
          /\ voices[i].envState = "RELEASE"
          /\ prev[j].envState = "RELEASE"
          /\ prev[j].note = last.payload.note
          /\ prev[j].channel = last.payload.channel
          /\ prev[j].envLevel > 0
          /\ prev[j].envLevel < prev[j].releaseStartLevel
          /\ voices[j] = prev[j]

\* C33: in every reachable state a voice is active exactly when its envState
\* is not IDLE: an IDLE voice is inactive, and no inactive voice is in ATTACK,
\* DECAY, SUSTAIN or RELEASE.
C33_ActiveIffNotIdle ==
    \A i \in VoiceIds : voices[i].active <=> voices[i].envState # "IDLE"

\* a sample has just ended the release of one voice, now inactive and IDLE,
\* while another voice is active and sounding
C33_Witness ==
    /\ ~failed
    /\ \E i, j \in VoiceIds :
          /\ Rendered(i)
          /\ prev[i].envState = "RELEASE"
          /\ voices[i].envState = "IDLE"
          /\ ~voices[i].active
          /\ voices[j].active
          /\ voices[j].envState \in Sounding

\* no voice is in ATTACK, DECAY or SUSTAIN and every active voice plays on a
\* channel in 0..15: the pool as it is once every NOTE_ON has been followed by
\* its NOTE_OFF
AllNotesOff ==
    /\ ~failed
    /\ \A i \in VoiceIds :
          /\ voices[i].envState \notin Sounding
          /\ voices[i].active => ChannelExists(voices[i].channel)

\* one more sample takes the releasing voice v to IDLE or lowers its level;
\* with no further command the step of a release is the same on every
\* sample, so v reaches IDLE exactly when this holds
ReleaseProgresses(v) ==
    LET w == ReleaseStep(v, channels[v.channel].adsr, sampleRateVal)
    IN  w.envState = "IDLE" \/ w.envLevel < v.envLevel

\* C34 (as claimed): once every NOTE_ON has been followed by its NOTE_OFF and
\* no command follows, continued rendering brings every voice to IDLE: every
\* voice still releasing is on its way to IDLE.
C34_NoStuckNotes ==
    AllNotesOff =>
        \A i \in VoiceIds :
            voices[i].envState = "RELEASE" => ReleaseProgresses(voices[i])

\* the commands that set the parameters of a channel in 0..15
ChannelSets ==
    {m \in WavetableMsgs \cup ADSRMsgs : ChannelExists(m.payload.channel)}

\* the note commands for channels in 0..15, and STOP_ALL
ValidNoteMsgs ==
    {x \in NoteOnMsgs \cup NoteOffMsgs : ChannelExists(x.payload.channel)}
        \cup {StopAllMsg}

\* what is compared of a voice
Playing(v) == <<v.channel, v.note, v.envState, v.envLevel>>

\* the number of active voices of pool vs on a channel other than c that play
\* as t
CountOf(vs, c, t) ==
    Cardinality({i \in VoiceIds :
                    vs[i].active /\ vs[i].channel # c /\ Playing(vs[i]) = t})

\* pools vsA and vsB hold the same voices on the channels other than c,
\* whatever slots they are in
SamePlaying(c, vsA, vsB) ==
    \A i \in VoiceIds : \A vs \in {vsA, vsB} :
        (vs[i].active /\ vs[i].channel # c) =>
            CountOf(vsA, c, Playing(vs[i])) = CountOf(vsB, c, Playing(vs[i]))

\* pools vsA and vsB hold the same voices on the channels other than c, slot
\* by slot
SameSlots(c, vsA, vsB) ==
    \A i \in VoiceIds :
        ( \/ vsA[i].active /\ vsA[i].channel # c
          \/ vsB[i].active /\ vsB[i].channel # c ) => vsA[i] = vsB[i]

\* C35 (as claimed; mid0 and midM are the states after the block of the two
\* runs, end0[x] the voices at the end of the run without the command): a SET_CHANNEL_WAVETABLE or SET_CHANNEL_ADSR on channel c
\* changes only channel c's state, and of two runs from the same state, one
\* with the command and one without it, each followed by a block and any note
\* command, both end with the same envelope states and levels for the voices
\* playing on the channels other than c.
C35_ChannelsIndependent ==
    (pos = 0 /\ ~failed) =>
        \A mid0 \in {AfterBlock(Here, sampleRateVal)} :
        \A end0 \in {[x \in ValidNoteMsgs |-> After(x, mid0, sampleRateVal).voices]} :
        \A m \in ChannelSets :
        \A stM \in {After(m, Here, sampleRateVal)} :
        \A midM \in {AfterBlock(stM, sampleRateVal)} :
            /\ \A d \in ChannelIds \ {m.payload.channel} :
                  stM.channels[d] = channels[d]
            /\ \A x \in ValidNoteMsgs :
                  SamePlaying(m.payload.channel, end0[x],
                              After(x, midM, sampleRateVal).voices)

\* C35 (amended): the command changes only channel c's state and no voice,
\* and the two runs end with the same voices on the other channels, slot by
\* slot, when the note command is not a NOTE_ON or is a NOTE_ON that claims
\* the same slot in both runs.
C35_IndependentUpToSlots ==
    (pos = 0 /\ ~failed) =>
        \A mid0 \in {AfterBlock(Here, sampleRateVal)} :
        \A end0 \in {[x \in ValidNoteMsgs |-> After(x, mid0, sampleRateVal).voices]} :
        \A m \in ChannelSets :
        \A stM \in {After(m, Here, sampleRateVal)} :
        \A midM \in {AfterBlock(stM, sampleRateVal)} :
            /\ \A d \in ChannelIds \ {m.payload.channel} :
                  stM.channels[d] = channels[d]
            /\ stM.voices = voices
            /\ SameSlots(m.payload.channel, mid0.voices, midM.voices)
            /\ \A x \in ValidNoteMsgs :
                  (x.type = "NOTE_ON" => SelectVoice(mid0.voices) = SelectVoice(midM.voices))
                  => SameSlots(m.payload.channel, end0[x],
                               After(x, midM, sampleRateVal).voices)

\* the pool holds a sounding voice of channel 1 and a releasing voice of
\* channel 0; with r = 0 set on channel 0 the run ends with that voice IDLE,
\* without it with the voice still releasing, and the voice of channel 1 ends
\* the same in both
C35_Witness ==
    /\ pos = 0
    /\ ~failed
    /\ \E i, j \in VoiceIds :
          LET m == [type |-> "SET_CHANNEL_ADSR",
                    payload |-> [channel |-> 0, adsr |-> ZeroADSR]]
              x == [type |-> "NOTE_OFF", payload |-> [note |-> 127, channel |-> 1]]
              A == RunAfter(NoEvent, x, Here, sampleRateVal).voices
              B == RunAfter(m, x, Here, sampleRateVal).voices
          IN  /\ voices[i].channel = 1
              /\ voices[i].envState \in Sounding
              /\ voices[j].channel = 0
              /\ voices[j].envState = "RELEASE"
              /\ A[j].envState = "RELEASE"
              /\ B[j].envState = "IDLE"
              /\ A[i].envState = "RELEASE"
              /\ A[i].releaseStartLevel > voices[i].envLevel
              /\ A[i] = B[i]

\* SET_CHANNEL_WAVETABLE with 32 zeros for channel c
ZeroTableMsg(c) ==
    [type |-> "SET_CHANNEL_WAVETABLE", payload |-> [channel |-> c, wavetable |-> ZeroTable]]

\* every active voice of pool vs plays on channel c
AllOnChannel(vs, c) == \A i \in VoiceIds : vs[i].active => vs[i].channel = c

\* C39 (as claimed): once a channel's wavetable is all zero, and while every
\* active voice plays on that channel, the next rendered output sample is 0,
\* whatever the voices' envelope states, phases and velocities.
C39_ZeroTableIsSilent ==
    (pos = 0 /\ ~failed) =>
        \A c \in {0, 1} :
        \A st \in {After(ZeroTableMsg(c), Here, sampleRateVal)} :
            (st.channels[c].wavetable = ZeroTable /\ AllOnChannel(st.voices, c))
                => MixSample(st.voices, st.channels, sampleRateVal) = Num(0)

\* the same at 48 kHz, where no phase leaves the table
C39_At48k == sampleRateVal = 48000 => C39_ZeroTableIsSilent

\* C40 (as claimed): envTime counts the samples rendered in the current
\* envelope state: a rendered sample that leaves an active voice in its state
\* adds 1 to it, and one that takes the voice into Decay or Release leaves it
\* at 0; so does a NOTE_ON or NOTE_OFF that takes a voice into Attack or
\* Release.
C40_EnvTimeCountsSamples ==
    /\ (last.type = "PROCESS" /\ ~failed) =>
          \A i \in VoiceIds :
              prev[i].active =>
                  IF voices[i].envState = prev[i].envState
                  THEN voices[i].envTime = prev[i].envTime + 1
                  ELSE voices[i].envState \in {"DECAY", "RELEASE"}
                           => voices[i].envTime = 0
    /\ last.type \in {"NOTE_ON", "NOTE_OFF"} =>
          \A i \in VoiceIds :
              (voices[i] # prev[i] /\ voices[i].envState \in {"ATTACK", "RELEASE"})
                  => voices[i].envTime = 0

\* envTime is 0 in every voice, always
C40_EnvTimeAlwaysZero == \A i \in VoiceIds : voices[i].envTime = 0

\* no message is on its way to any processor
NothingInFlight ==
    /\ port = << >>
    /\ \A k \in 1 .. Len(oldPorts) : oldPorts[k].port = << >>

\* C36 (as claimed): whatever number of times init() has run, once playback
\* is stopped (the last note command the application called is stopAll())
\* and every posted message is handled, no voice that an earlier noteOn
\* started is active in any processor connected to the output.
C36_StopAllSilencesAll ==
    (~isPlaying /\ NothingInFlight) =>
        /\ \A i \in VoiceIds : ~voices[i].active
        /\ \A k \in 1 .. Len(oldPorts) :
              \A i \in VoiceIds : ~oldPorts[k].voices[i].active

\* C37 (as claimed): a note-on timer that was pending at a stopPlayback()
\* calls no noteOn that reaches the engine when it runs, whatever Play,
\* Pause, Stop and seek actions came in between.
C37_NoStaleNoteOn ==
    [][\A t \in timers :
          (t.kind = "on" /\ t.stale /\ t \notin timers') => port' = port]_vars

\* C38 (as claimed): once the engine is ready and every posted command is
\* applied, the wavetable and the ADSR of every channel of the processor equal
\* the ones channelStates holds for that channel.
C38_MirrorAgrees ==
    (isReady /\ workletNode # 0 /\ port = << >>) =>
        \A c \in ChannelIds :
            /\ channels[c].wavetable = channelStates[c].wavetable
            /\ channels[c].adsr = channelStates[c].adsr

\* the same for the edits made since the node of workletNode was created:
\* every channel differs from channelStates only where it still has the
\* values of the constructor
C38_AgreesOrDefault ==
    (isReady /\ workletNode # 0 /\ port = << >>) =>
        \A c \in ChannelIds :
            /\ channels[c].wavetable \in {channelStates[c].wavetable, SineTable}
            /\ channels[c].adsr \in {channelStates[c].adsr, DefaultADSR}
====
